---------------------------- MODULE Spec2Model ----------------------------
(***************************************************************************)
(* Model of the numerical integration calculator: ExpressionParser         *)
(* (infixToPostfix, evaluate) and NumericalIntegrator (setExpression,      *)
(* setBounds, setSubdivisions, the three rules, computeAll), and of the    *)
(* binary tree visualizer: Codec (serialize, deserialize) and the menu of  *)
(* TreeApp.  Strings are sequences of one-character                        *)
(* strings; the operator stack and the value stack are sequences whose     *)
(* last element is the top.                                                *)
(***************************************************************************)
EXTENDS Integers, Sequences, FiniteSets, TLC

VARIABLES
  expr,        \* argument of infixToPostfix
  pc,          \* "scan" | "parsed" | "parseError" | "eval" | "returned" | "evalError"
  pos,         \* loop index i of infixToPostfix, 1-based
  opStack,     \* std::stack<char> opStack
  result,      \* std::string result
  parenCount,  \* int parenCount
  postfix_,    \* ExpressionParser::postfix_
  x,           \* argument of evaluate
  iss,         \* tokens of postfix_ not yet read by evaluate
  valStack,    \* std::stack<double> valStack
  retval,      \* value returned by evaluate
  parseErr,    \* exception thrown by infixToPostfix, <<kind, detail>>
  err,         \* exception thrown by evaluate, <<kind, detail>>
  last,        \* record of the step just taken (history)
  infix_,        \* NumericalIntegrator::infix_
  lowerBound_,   \* NumericalIntegrator::lowerBound_
  upperBound_,   \* NumericalIntegrator::upperBound_
  subdivisions_, \* NumericalIntegrator::subdivisions_
  ipc,           \* "idle", or the rule computeAll is in
  parts,         \* the rule's partition count (n of simpsonsRule)
  step,          \* double h of the rule
  sum,           \* double sum of the rule
  idx,           \* loop index i of the rule
  report,        \* the lines computeAll has printed for the rules (history)
  calls,         \* the calls of f made by computeAll, Test 1 apart (history)
  console,       \* what the last setter printed (history)
  request,       \* the operation under way or last, with its arguments (history)
  heap,          \* the TreeNode objects alive: node id -> [val, left, right]
  root,          \* TreeApp::root, or the tree given to Codec::serialize
  data,          \* the std::string Codec::serialize has returned last
  copy,          \* the TreeNode* Codec::deserialize has returned to a local
  lost,          \* how many TreeNode objects are alive with no pointer to them
  tpc,           \* where the tree program is: "menu", "exited", "undefined", ...
  chosen         \* the menu option taken last, with its input (history)

parserVars == <<expr, pos, opStack, result, parenCount>>
evalVars == <<x, iss, valStack, retval>>
integratorVars == <<infix_, lowerBound_, upperBound_, subdivisions_, ipc,
                    parts, step, sum, idx, report, calls, console, request>>
treeVars == <<heap, root, data, copy, lost, tpc, chosen>>
vars == <<expr, pc, pos, opStack, result, parenCount, postfix_, x, iss,
          valStack, retval, parseErr, err, last, integratorVars, treeVars>>

-----------------------------------------------------------------------------
(* Characters                                                              *)

Lower == <<"a","b","c","d","e","f","g","h","i","j","k","l","m",
           "n","o","p","q","r","s","t","u","v","w","x","y","z">>
Upper == <<"A","B","C","D","E","F","G","H","I","J","K","L","M",
           "N","O","P","Q","R","S","T","U","V","W","X","Y","Z">>
Digits == <<"0","1","2","3","4","5","6","7","8","9">>

Range(s) == {s[k] : k \in DOMAIN s}

IsSpace(c) == c \in {" ", "\t", "\n", "\r", "\f"}
IsDigit(c) == c \in Range(Digits)
IsAlpha(c) == c \in Range(Lower) \cup Range(Upper)

ToLower(c) ==
  IF c \in Range(Upper)
    THEN Lower[CHOOSE k \in DOMAIN Upper : Upper[k] = c]
    ELSE c

DigitVal(c) == (CHOOSE k \in DOMAIN Digits : Digits[k] = c) - 1

Last(s) == s[Len(s)]
Front(s) == SubSeq(s, 1, Len(s) - 1)

\* The decimal digits of a natural number
RECURSIVE DigitsOf(_)
DigitsOf(k) ==
  IF k < 10 THEN <<Digits[k + 1]>>
  ELSE DigitsOf(k \div 10) \o <<Digits[(k % 10) + 1]>>

\* std::ostream << int: a minus sign for a negative number, and the digits
StreamInt(k) == IF k < 0 THEN <<"-">> \o DigitsOf(-k) ELSE DigitsOf(k)

NoErr == <<"", "">>
NoEvalErr == <<"", <<>>>>

-----------------------------------------------------------------------------
(* ExpressionParser helpers                                                *)

precedence(op) ==
  CASE op = "^" -> 4
    [] op \in {"*", "/"} -> 3
    [] op \in {"+", "-"} -> 2
    [] OTHER -> 0

isOperator(c) == c \in {"+", "-", "*", "/", "^"}

\* Variant: no operator groups to the right
isRightAssociative_None(c) == FALSE

isRightAssociative(c) == c = "^"

\* result gets a separating blank unless it is empty or already ends in one
Sep(res) == IF res # <<>> /\ Last(res) # " " THEN <<" ">> ELSE <<>>

\* Length of the maximal run of characters satisfying the class, from p
RECURSIVE RunLen(_, _, _)
RunLen(s, p, cls) ==
  IF p <= Len(s) /\ s[p] \in cls THEN 1 + RunLen(s, p + 1, cls) ELSE 0

NumberChars == Range(Digits) \cup {"."}
AlphaChars == Range(Lower) \cup Range(Upper)

\* std::to_string(M_PI), std::to_string(M_E): "%f", six decimals
ToStringPi == <<"3",".","1","4","1","5","9","3">>
ToStringE == <<"2",".","7","1","8","2","8","2">>

\* Pops the letters under a function marker: returns <<stack, name>>
RECURSIVE PopFunc(_, _)
PopFunc(stk, func) ==
  IF stk # <<>> /\ IsAlpha(Last(stk))
    THEN PopFunc(Front(stk), <<Last(stk)>> \o func)
    ELSE <<stk, func>>

\* Variant: the loop of the ')' branch does not stop at '('
RECURSIVE UnwindToParen_Through(_, _)
UnwindToParen_Through(stk, res) ==
  IF stk # <<>>
    THEN IF Last(stk) = "#"
           THEN LET pf == PopFunc(Front(stk), <<>>)
                IN UnwindToParen_Through(pf[1], res \o pf[2] \o <<" ">>)
         ELSE IF Last(stk) = "("
           THEN UnwindToParen_Through(Front(stk), res)
           ELSE UnwindToParen_Through(Front(stk), res \o <<Last(stk), " ">>)
    ELSE <<stk, res>>

\* The while loop of the ')' branch: pops down to '(' or to the empty stack
RECURSIVE UnwindToParen(_, _)
UnwindToParen(stk, res) ==
  IF stk # <<>> /\ Last(stk) # "("
    THEN IF Last(stk) = "#"
           THEN LET pf == PopFunc(Front(stk), <<>>)
                IN UnwindToParen(pf[1], res \o pf[2] \o <<" ">>)
           ELSE UnwindToParen(Front(stk), res \o <<Last(stk), " ">>)
    ELSE <<stk, res>>

\* Variant: the operator branch pops without writing what it pops
RECURSIVE PopOperators_Lossy(_, _, _)
PopOperators_Lossy(stk, res, c) ==
  IF /\ stk # <<>>
     /\ Last(stk) # "("
     /\ \/ precedence(Last(stk)) > precedence(c)
        \/ /\ precedence(Last(stk)) = precedence(c)
           /\ ~isRightAssociative(c)
    THEN PopOperators_Lossy(Front(stk), res, c)
    ELSE <<stk, res>>

\* The while loop of the operator branch
RECURSIVE PopOperators(_, _, _)
PopOperators(stk, res, c) ==
  IF /\ stk # <<>>
     /\ Last(stk) # "("
     /\ \/ precedence(Last(stk)) > precedence(c)
        \/ /\ precedence(Last(stk)) = precedence(c)
           /\ ~isRightAssociative(c)
    THEN PopOperators(Front(stk), res \o <<Last(stk), " ">>, c)
    ELSE <<stk, res>>

\* The final loop: <<ok, stack, result>>, ok FALSE when a parenthesis is met
RECURSIVE PopRemaining(_, _)
PopRemaining(stk, res) ==
  IF stk = <<>> THEN <<TRUE, stk, res>>
  ELSE IF Last(stk) \in {"(", ")"} THEN <<FALSE, stk, res>>
  ELSE IF Last(stk) = "#"
    THEN LET pf == PopFunc(Front(stk), <<>>)
         IN PopRemaining(pf[1], res \o pf[2] \o <<" ">>)
    ELSE PopRemaining(Front(stk), res \o <<Last(stk), " ">>)


\* Function names (as strings) among the markers of a stack segment, top first
RECURSIVE FuncsIn(_)
FuncsIn(stk) ==
  IF stk = <<>> THEN <<>>
  ELSE IF Last(stk) = "#"
    THEN LET pf == PopFunc(Front(stk), <<>>)
         IN <<pf[2]>> \o FuncsIn(pf[1])
    ELSE FuncsIn(Front(stk))

\* The part of the stack above its topmost '(' (the whole stack if none)
RECURSIVE AboveParen(_)
AboveParen(stk) ==
  IF stk = <<>> \/ Last(stk) = "(" THEN <<>>
  ELSE AboveParen(Front(stk)) \o <<Last(stk)>>

\* History of one step: the branch taken, the character or token it read,
\* the function names it wrote (with the place in the code that wrote them)
\* and, for evaluate, the value stack before the step
Step(op, c, emits) == [op |-> op, c |-> c, emits |-> emits, before |-> <<>>]

-----------------------------------------------------------------------------
(* infixToPostfix: one action per branch of the character loop             *)

Scanning == pc = "scan" /\ pos <= Len(expr)

Throw(kind, detail) ==
  /\ pc' = "parseError"
  /\ parseErr' = <<kind, detail>>

\* if (std::isspace(c)) continue;
ParseSpace ==
  /\ Scanning
  /\ IsSpace(expr[pos])
  /\ pos' = pos + 1
  /\ last' = Step("space", <<expr[pos]>>, <<>>)
  /\ UNCHANGED <<expr, pc, opStack, result, parenCount, postfix_, evalVars, parseErr, err>>
  /\ UNCHANGED <<integratorVars, treeVars>>

StartsNumber(s, p) ==
  \/ IsDigit(s[p])
  \/ s[p] = "." /\ p + 1 <= Len(s) /\ IsDigit(s[p + 1])

ParseNumber ==
  /\ Scanning
  /\ ~IsSpace(expr[pos])
  /\ StartsNumber(expr, pos)
  /\ LET n == RunLen(expr, pos, NumberChars)
     IN /\ result' = result \o Sep(result) \o SubSeq(expr, pos, pos + n - 1)
                       \o <<" ">>
        /\ pos' = pos + n
  /\ last' = Step("number", <<expr[pos]>>, <<>>)
  /\ UNCHANGED <<expr, pc, opStack, parenCount, postfix_, evalVars, parseErr, err>>
  /\ UNCHANGED <<integratorVars, treeVars>>

ParseVariable ==
  /\ Scanning
  /\ ~IsSpace(expr[pos])
  /\ ~StartsNumber(expr, pos)
  /\ expr[pos] \in {"x", "X"}
  /\ result' = result \o Sep(result) \o <<"x", " ">>
  /\ pos' = pos + 1
  /\ last' = Step("variable", <<expr[pos]>>, <<>>)
  /\ UNCHANGED <<expr, pc, opStack, parenCount, postfix_, evalVars, parseErr, err>>
  /\ UNCHANGED <<integratorVars, treeVars>>

ParseIdentifier ==
  /\ Scanning
  /\ ~IsSpace(expr[pos])
  /\ ~StartsNumber(expr, pos)
  /\ expr[pos] \notin {"x", "X"}
  /\ IsAlpha(expr[pos])
  /\ LET n == RunLen(expr, pos, AlphaChars)
         token == [k \in 1..n |-> ToLower(expr[pos + k - 1])]
     IN /\ pos' = pos + n
        /\ IF token = <<"x">>
             THEN /\ result' = result \o Sep(result) \o <<"x", " ">>
                  /\ opStack' = opStack
           ELSE IF token = <<"p", "i">>
             THEN /\ result' = result \o Sep(result) \o ToStringPi \o <<" ">>
                  /\ opStack' = opStack
           ELSE IF token = <<"e">>
             THEN /\ result' = result \o Sep(result) \o ToStringE \o <<" ">>
                  /\ opStack' = opStack
           ELSE /\ opStack' = opStack \o token \o <<"#">>
                /\ result' = result
  /\ last' = Step("identifier", <<expr[pos]>>, <<>>)
  /\ UNCHANGED <<expr, pc, parenCount, postfix_, evalVars, parseErr, err>>
  /\ UNCHANGED <<integratorVars, treeVars>>

NoOperand(s, p) ==
  /\ ~IsSpace(s[p])
  /\ ~StartsNumber(s, p)
  /\ s[p] \notin {"x", "X"}
  /\ ~IsAlpha(s[p])

\* Variant: '(' is pushed but not counted
ParseOpen_Uncounted ==
  /\ Scanning
  /\ NoOperand(expr, pos)
  /\ expr[pos] = "("
  /\ opStack' = Append(opStack, "(")
  /\ parenCount' = parenCount
  /\ pos' = pos + 1
  /\ last' = Step("open", <<"(">>, <<>>)
  /\ UNCHANGED <<expr, pc, result, postfix_, evalVars, parseErr, err>>
  /\ UNCHANGED <<integratorVars, treeVars>>

ParseOpen ==
  /\ Scanning
  /\ NoOperand(expr, pos)
  /\ expr[pos] = "("
  /\ opStack' = Append(opStack, "(")
  /\ parenCount' = parenCount + 1
  /\ pos' = pos + 1
  /\ last' = Step("open", <<"(">>, <<>>)
  /\ UNCHANGED <<expr, pc, result, postfix_, evalVars, parseErr, err>>
  /\ UNCHANGED <<integratorVars, treeVars>>

ParseClose ==
  /\ Scanning
  /\ NoOperand(expr, pos)
  /\ expr[pos] = ")"
  /\ parenCount' = parenCount - 1
  /\ IF parenCount - 1 < 0
       THEN /\ Throw("Unbalanced parentheses", "extra closing ')'")
            /\ last' = Step("close", <<")">>, <<>>)
            /\ UNCHANGED <<pos, opStack, result>>
       ELSE LET uw == UnwindToParen(opStack, result)
                unwound == [f \in DOMAIN FuncsIn(AboveParen(opStack)) |->
                              <<FuncsIn(AboveParen(opStack))[f], "unwind">>]
            IN IF uw[1] = <<>>
                 THEN /\ Throw("Unbalanced parentheses", "missing opening '('")
                      /\ last' = Step("close", <<")">>, unwound)
                      /\ result' = uw[2]
                      /\ opStack' = uw[1]
                      /\ UNCHANGED pos
                 ELSE LET stk == Front(uw[1])
                      IN /\ IF stk # <<>> /\ Last(stk) = "#"
                              THEN LET pf == PopFunc(Front(stk), <<>>)
                                   IN /\ opStack' = pf[1]
                                      /\ result' = uw[2] \o pf[2] \o <<" ">>
                                      /\ last' = Step("close", <<")">>,
                                           Append(unwound, <<pf[2], "matched">>))
                              ELSE /\ opStack' = stk
                                   /\ result' = uw[2]
                                   /\ last' = Step("close", <<")">>, unwound)
                         /\ pos' = pos + 1
                         /\ UNCHANGED <<pc, parseErr>>
  /\ UNCHANGED <<expr, postfix_, evalVars, err>>
  /\ UNCHANGED <<integratorVars, treeVars>>

ParseOperator ==
  /\ Scanning
  /\ NoOperand(expr, pos)
  /\ expr[pos] \notin {"(", ")"}
  /\ isOperator(expr[pos])
  /\ LET po == PopOperators(opStack, result, expr[pos])
     IN /\ opStack' = Append(po[1], expr[pos])
        /\ result' = po[2]
  /\ pos' = pos + 1
  /\ last' = Step("operator", <<expr[pos]>>, <<>>)
  /\ UNCHANGED <<expr, pc, parenCount, postfix_, evalVars, parseErr, err>>
  /\ UNCHANGED <<integratorVars, treeVars>>

\* No branch of the if/else chain matches: the loop goes on to the next index
ParseOther ==
  /\ Scanning
  /\ NoOperand(expr, pos)
  /\ expr[pos] \notin {"(", ")"}
  /\ ~isOperator(expr[pos])
  /\ pos' = pos + 1
  /\ last' = Step("other", <<expr[pos]>>, <<>>)
  /\ UNCHANGED <<expr, pc, opStack, result, parenCount, postfix_, evalVars, parseErr, err>>
  /\ UNCHANGED <<integratorVars, treeVars>>

\* After the loop: the parenCount test, the final unwinding, postfix_ = result
ParseEnd ==
  /\ pc = "scan"
  /\ pos > Len(expr)
  /\ IF parenCount # 0
       THEN /\ Throw("Unbalanced parentheses", "missing closing ')'")
            /\ last' = Step("end", <<>>, <<>>)
            /\ UNCHANGED <<opStack, result, postfix_>>
       ELSE LET pr == PopRemaining(opStack, result)
                ended == [f \in DOMAIN FuncsIn(AboveParen(opStack)) |->
                            <<FuncsIn(AboveParen(opStack))[f], "end">>]
            IN /\ opStack' = pr[2]
               /\ result' = pr[3]
               /\ last' = Step("end", <<>>, ended)
               /\ IF pr[1]
                    THEN /\ postfix_' = pr[3]
                         /\ pc' = "parsed"
                         /\ parseErr' = parseErr
                    ELSE /\ Throw("Unbalanced parentheses", "in expression")
                         /\ postfix_' = postfix_
  /\ UNCHANGED <<expr, pos, parenCount, evalVars, err>>
  /\ UNCHANGED <<integratorVars, treeVars>>


-----------------------------------------------------------------------------
(* double values.  A value is an exact rational n/d (kind "num", reduced,  *)
(* |n| and d at most NumMax; kind "wide", reduced, n or d above NumMax and *)
(* both within int) or a term (kind "sym") for a result that is no such    *)
(* rational: a library function's result, a power with a fractional        *)
(* exponent, a value out of the exact range.  Every value                  *)
(* carries what the comparisons of evaluate need: sg, its sign (-1, 0, 1;  *)
(* 3 for NaN; 2 when the model does not determine it, which includes the   *)
(* infinities), and for sg -1 or 1 decimal bounds on its magnitude,        *)
(* 10^lo <= |v| < 10^hi, kept within 10^-300 .. 10^300 so that no          *)
(* determined value has underflowed to zero or overflowed.                 *)

NumMax == 32767
MaxExp10 == 300

\* The ends of int (32 bits)
IntMax == 2 * 1073741823 + 1
IntMin == -IntMax - 1

Abs(n) == IF n < 0 THEN -n ELSE n
Sign(n) == IF n < 0 THEN -1 ELSE IF n = 0 THEN 0 ELSE 1
Max(a, b) == IF a >= b THEN a ELSE b
Min(a, b) == IF a <= b THEN a ELSE b
\* floor and ceiling of p/q for q > 0
Floor(p, q) == p \div q
Ceil(p, q) == -((-p) \div q)

RECURSIVE Gcd(_, _)
Gcd(a, b) == IF b = 0 THEN a ELSE Gcd(b, a % b)

\* The least m >= 0 with 10^m >= c, and the number of decimal digits of c
RECURSIVE CeilLog10(_)
CeilLog10(c) == IF c <= 1 THEN 0 ELSE 1 + CeilLog10(Ceil(c, 10))
RECURSIVE NumDigits(_)
NumDigits(c) == IF c < 10 THEN 1 ELSE 1 + NumDigits(c \div 10)

\* The L with 10^L <= n/d < 10^(L+1), for n, d > 0
Decade(n, d) ==
  IF n >= d THEN NumDigits(n \div d) - 1
  ELSE -CeilLog10((d \div n) + (IF d % n = 0 THEN 0 ELSE 1))

\* |n/d| < 1e-15, that is |n| * 10^15 < d, computed without the product
BelowTolerance(n, d) ==
  Abs(n) <= (((d - 1) \div 100000) \div 100000) \div 100000

Undetermined(term) ==
  [k |-> "sym", n |-> 0, d |-> 1, sg |-> 2, lo |-> 0, hi |-> 0, term |-> term]

\* A term of sign sg (-1 or 1) with 10^lo <= |v| < 10^hi
Sym(sg, lo, hi, term) ==
  IF sg \in {-1, 1} /\ lo >= -MaxExp10 /\ hi <= MaxExp10
    THEN [k |-> "sym", n |-> 0, d |-> 1, sg |-> sg, lo |-> lo, hi |-> hi,
          term |-> term]
    ELSE Undetermined(term)

\* The value n/d (d > 0); term names it when it is out of the exact range
Rat(n, d, term) ==
  LET g == Gcd(Abs(n), d)
      m == Abs(n) \div g
      e == d \div g
  IN IF n = 0
       THEN [k |-> "num", n |-> 0, d |-> 1, sg |-> 0, lo |-> 0, hi |-> 0,
             term |-> <<>>]
     ELSE IF m <= NumMax /\ e <= NumMax
       THEN [k |-> "num", n |-> Sign(n) * m, d |-> e, sg |-> Sign(n),
             lo |-> Decade(m, e), hi |-> Decade(m, e) + 1, term |-> <<>>]
     ELSE [k |-> "wide", n |-> Sign(n) * m, d |-> e, sg |-> Sign(n),
           lo |-> Decade(m, e), hi |-> Decade(m, e) + 1, term |-> <<>>]

Zero == Rat(0, 1, <<>>)
One == Rat(1, 1, <<>>)
NaN == [k |-> "sym", n |-> 0, d |-> 1, sg |-> 3, lo |-> 0, hi |-> 0,
        term |-> <<"nan">>]
IsNum(v) == v.k = "num"
IsExact(v) == v.k \in {"num", "wide"}
IsNaN(v) == v.sg = 3
IsZero(v) == v.sg = 0
Determined(v) == v.sg \in {-1, 1}

\* The double 1e-16 (just under 10^-16): positive, below the tolerance
Tiny == Sym(1, -17, -15, <<"1e-16">>)

\* The points at which the model calls evaluate
XValues == {Zero, Rat(1, 2, <<>>), One, Rat(2, 1, <<>>), Rat(-1, 1, <<>>), Tiny}

\* The product a * b is within int
Fits(a, b) == a = 0 \/ b = 0 \/ Abs(a) <= IntMax \div Abs(b)

\* The sum of two exact values, over the least common denominator, is
\* within int
SumFits(a, b) ==
  LET g == Gcd(a.d, b.d)
  IN /\ Fits(a.n, b.d \div g)
     /\ Fits(b.n, a.d \div g)
     /\ Fits(a.d, b.d \div g)
     /\ Abs(a.n * (b.d \div g)) <= IntMax - Abs(b.n * (a.d \div g))

ExactSum(a, b, sb, term) ==
  LET g == Gcd(a.d, b.d)
  IN Rat(a.n * (b.d \div g) + sb * b.n * (a.d \div g), a.d * (b.d \div g),
         term)

\* The product of two exact values, reduced crosswise, is within int
ProductFits(a, b) ==
  LET g == Gcd(Abs(a.n), b.d)
      h == Gcd(Abs(b.n), a.d)
  IN /\ Fits(a.n \div g, b.n \div h)
     /\ Fits(a.d \div h, b.d \div g)

ExactProduct(a, b, term) ==
  LET g == Gcd(Abs(a.n), b.d)
      h == Gcd(Abs(b.n), a.d)
  IN Rat((a.n \div g) * (b.n \div h), (a.d \div h) * (b.d \div g), term)

\* 1 / b as numerator and denominator, for an exact b that is not zero
Inverse(b) == [n |-> Sign(b.n) * b.d, d |-> Abs(b.n)]

\* a + sb * b for sb = 1 (a + b) or sb = -1 (a - b)
AddSub(a, b, sb, op) ==
  LET term == <<op, a, b>>
  IN IF IsNum(a) /\ IsNum(b)
       THEN Rat(a.n * b.d + sb * b.n * a.d, a.d * b.d, term)
     ELSE IF IsExact(a) /\ IsExact(b) /\ SumFits(a, b)
       THEN ExactSum(a, b, sb, term)
     ELSE IF IsNaN(a) \/ IsNaN(b) THEN NaN
     ELSE IF IsZero(b) THEN a
     ELSE IF IsZero(a)
       THEN IF Determined(b) THEN Sym(sb * b.sg, b.lo, b.hi, term)
            ELSE Undetermined(term)
     ELSE IF Determined(a) /\ Determined(b) /\ a.sg = sb * b.sg
       THEN Sym(a.sg, Max(a.lo, b.lo), Max(a.hi, b.hi) + 1, term)
     ELSE Undetermined(term)

Mul(a, b) ==
  LET term == <<"*", a, b>>
  IN IF IsNum(a) /\ IsNum(b) THEN Rat(a.n * b.n, a.d * b.d, term)
     ELSE IF IsExact(a) /\ IsExact(b) /\ ProductFits(a, b)
       THEN ExactProduct(a, b, term)
     ELSE IF IsNaN(a) \/ IsNaN(b) THEN NaN
     ELSE IF (IsZero(a) /\ Determined(b)) \/ (Determined(a) /\ IsZero(b))
       THEN Zero
     ELSE IF Determined(a) /\ Determined(b)
       THEN Sym(a.sg * b.sg, a.lo + b.lo, a.hi + b.hi, term)
     ELSE Undetermined(term)

\* a / b, called only for a divisor that is not below the tolerance
Div(a, b) ==
  LET term == <<"/", a, b>>
  IN IF IsNum(a) /\ IsNum(b)
       THEN Rat(Sign(b.n) * a.n * b.d, a.d * Abs(b.n), term)
     ELSE IF IsExact(a) /\ IsExact(b) /\ ProductFits(a, Inverse(b))
       THEN ExactProduct(a, Inverse(b), term)
     ELSE IF IsNaN(a) \/ IsNaN(b) THEN NaN
     ELSE IF IsZero(a) /\ Determined(b) THEN Zero
     ELSE IF Determined(a) /\ Determined(b)
       THEN Sym(a.sg * b.sg, a.lo - b.hi, a.hi - b.lo, term)
     ELSE Undetermined(term)

\* a^k for an exact value a and an integer k >= 0, by repeated
\* multiplication, until the product leaves the exact range
RECURSIVE PowNat(_, _, _)
PowNat(acc, a, k) ==
  IF k = 0 \/ ~IsExact(acc) THEN acc
  ELSE PowNat(Mul(acc, a), a, k - 1)

\* |a|^(p/q) for a determined a: bounds from those of a
PowBounds(a, p, q, sg, term) ==
  IF p > 0
    THEN Sym(sg, Floor(a.lo * p, q), Ceil(a.hi * p, q), term)
    ELSE Sym(sg, Floor(a.hi * p, q), Ceil(a.lo * p, q) + 1, term)

\* std::pow(a, b)
Pow(a, b) ==
  LET term == <<"^", a, b>>
  IN IF (IsNum(b) /\ b.n = 0) \/ (IsNum(a) /\ a.n = a.d) THEN One
     ELSE IF IsNaN(a) \/ IsNaN(b) THEN NaN
     ELSE IF IsZero(a)
       THEN IF b.sg = 1 THEN Zero ELSE Undetermined(term)
     ELSE IF ~IsNum(b) \/ ~Determined(a) THEN Undetermined(term)
     ELSE IF IsNum(a) /\ a.n = -a.d /\ b.d = 1
       THEN IF b.n % 2 = 0 THEN One ELSE a
     ELSE IF b.d = 1
       THEN LET p == IF IsExact(a) THEN PowNat(One, a, Abs(b.n)) ELSE a
                sg == IF a.sg = -1 /\ b.n % 2 = 0 THEN 1 ELSE a.sg
            IN IF IsExact(a) /\ IsExact(p)
                 THEN IF b.n > 0 THEN p
                      ELSE Rat(Sign(p.n) * p.d, Abs(p.n), term)
                 ELSE PowBounds(a, b.n, 1, sg, term)
     ELSE IF a.sg = -1 THEN NaN
     ELSE PowBounds(a, b.n, b.d, 1, term)

\* The integer square root of n, or -1 when n is no perfect square
ExactSqrt(n) ==
  IF \E r \in 0..181 : r * r = n
    THEN CHOOSE r \in 0..181 : r * r = n
    ELSE -1

\* |a| <= p/q and |a| >= p/q for a num value a
AbsLeq(a, p, q) == q * Abs(a.n) <= p * a.d
AbsGeq(a, p, q) == q * Abs(a.n) >= p * a.d
\* |a| < 1 for a determined value
Small(a) == Determined(a) /\ a.hi <= 0

\* The library functions.  The sign and the magnitude of a result follow
\* from the argument's range (3 < pi, 3/2 < pi/2 < 2, 4 < 3*pi/2,
\* 0.43 < log10(e) < 0.44); a result is exact where the function's is.
Sin(a) ==
  LET term == <<"sin", a>>
  IN IF IsNaN(a) THEN NaN
     ELSE IF IsZero(a) THEN Zero
     ELSE IF (IsNum(a) /\ AbsLeq(a, 3, 1)) \/ Small(a)
       THEN Sym(a.sg, a.lo - 2, Min(a.hi, 1), term)
     ELSE Undetermined(term)

Cos(a) ==
  LET term == <<"cos", a>>
  IN IF IsNaN(a) THEN NaN
     ELSE IF IsZero(a) THEN One
     ELSE IF (IsNum(a) /\ AbsLeq(a, 3, 2)) \/ Small(a) THEN Sym(1, -2, 1, term)
     ELSE IF IsNum(a) /\ AbsGeq(a, 2, 1) /\ AbsLeq(a, 4, 1)
       THEN Sym(-1, -1, 1, term)
     ELSE Undetermined(term)

Tan(a) ==
  LET term == <<"tan", a>>
  IN IF IsNaN(a) THEN NaN
     ELSE IF IsZero(a) THEN Zero
     ELSE IF (IsNum(a) /\ AbsLeq(a, 3, 2)) \/ Small(a)
       THEN Sym(a.sg, a.lo - 1, a.hi + 1, term)
     ELSE IF IsNum(a) /\ AbsGeq(a, 2, 1) /\ AbsLeq(a, 3, 1)
       THEN Sym(-a.sg, -1, 1, term)
     ELSE Undetermined(term)

\* std::log10 and std::log, called only for an argument that is not <= 0
Log(name, a) ==
  LET term == <<name, a>>
  IN IF IsNaN(a) THEN NaN
     ELSE IF IsNum(a)
       THEN IF a.n = a.d THEN Zero
            ELSE Sym(IF a.n > a.d THEN 1 ELSE -1, -5, 2, term)
     ELSE IF Determined(a) /\ a.hi <= -1 THEN Sym(-1, 0, 3, term)
     ELSE IF Determined(a) /\ a.lo >= 1 THEN Sym(1, 0, 3, term)
     ELSE Undetermined(term)

\* std::sqrt, called only for an argument that is not < 0
Sqrt(a) ==
  LET term == <<"sqrt", a>>
  IN IF IsNaN(a) THEN NaN
     ELSE IF IsZero(a) THEN Zero
     ELSE IF IsNum(a) /\ ExactSqrt(a.n) >= 0 /\ ExactSqrt(a.d) >= 0
       THEN Rat(ExactSqrt(a.n), ExactSqrt(a.d), term)
     ELSE IF Determined(a) THEN Sym(1, Floor(a.lo, 2), Ceil(a.hi, 2), term)
     ELSE Undetermined(term)

FAbs(a) ==
  LET term == <<"abs", a>>
  IN IF IsNum(a) THEN Rat(Abs(a.n), a.d, term)
     ELSE IF IsNaN(a) THEN NaN
     ELSE IF Determined(a) THEN Sym(1, a.lo, a.hi, term)
     ELSE Undetermined(term)

Exp(a) ==
  LET term == <<"exp", a>>
  IN IF IsNaN(a) THEN NaN
     ELSE IF IsZero(a) THEN One
     ELSE IF IsNum(a) /\ AbsLeq(a, 700, 1)
       THEN IF a.n > 0
              THEN Sym(1, Floor(43 * a.n, 100 * a.d),
                       Ceil(44 * a.n, 100 * a.d), term)
              ELSE Sym(1, Floor(44 * a.n, 100 * a.d),
                       Ceil(43 * a.n, 100 * a.d), term)
     ELSE IF Small(a) THEN Sym(1, -1, 1, term)
     ELSE Undetermined(term)

\* The comparisons of evaluate: "yes", "no", or "unknown" for a value whose
\* sign or magnitude the model does not determine
LeqZero(a) ==
  IF a.sg \in {-1, 0} THEN "yes" ELSE IF a.sg \in {1, 3} THEN "no" ELSE "unknown"
LtZero(a) ==
  IF a.sg = -1 THEN "yes" ELSE IF a.sg \in {0, 1, 3} THEN "no" ELSE "unknown"

\* Variant: only an exact zero counts as a zero divisor
AbsBelow1e15_ExactZero(b) ==
  IF IsNaN(b) THEN "no"
  ELSE IF IsZero(b) THEN "yes"
  ELSE IF Determined(b) THEN "no"
  ELSE "unknown"

\* std::abs(b) < 1e-15
AbsBelow1e15(b) ==
  IF IsNum(b) THEN (IF BelowTolerance(b.n, b.d) THEN "yes" ELSE "no")
  ELSE IF IsNaN(b) THEN "no"
  ELSE IF Determined(b) /\ b.hi <= -15 THEN "yes"
  ELSE IF Determined(b) /\ b.lo >= -15 THEN "no"
  ELSE "unknown"

-----------------------------------------------------------------------------
(* evaluate                                                                *)

\* std::istringstream >> token: the whitespace-separated words of s
RECURSIVE Tokens(_)
Tokens(s) ==
  IF s = <<>> THEN <<>>
  ELSE IF IsSpace(s[1]) THEN Tokens(Tail(s))
  ELSE LET n == RunLen(s, 1, Range(s) \ {" ", "\t", "\n", "\r", "\f"})
       IN <<SubSeq(s, 1, n)>> \o Tokens(SubSeq(s, n + 1, Len(s)))

RECURSIVE DigitsToInt(_)
DigitsToInt(ds) ==
  IF ds = <<>> THEN 0 ELSE 10 * DigitsToInt(Front(ds)) + DigitVal(Last(ds))

RECURSIVE Pow10(_)
Pow10(k) == IF k = 0 THEN 1 ELSE 10 * Pow10(k - 1)

\* std::stod: an optional sign, digits, an optional point and digits; what
\* follows this prefix in the token is ignored
Stod(token) ==
  LET neg == token[1] = "-"
      body == IF neg THEN Tail(token) ELSE token
      ni == RunLen(body, 1, Range(Digits))
      hasPoint == ni < Len(body) /\ body[ni + 1] = "."
      nf == IF hasPoint THEN RunLen(body, ni + 2, Range(Digits)) ELSE 0
      digits == SubSeq(body, 1, ni) \o SubSeq(body, ni + 2, ni + 1 + nf)
  IN Rat((IF neg THEN -1 ELSE 1) * DigitsToInt(digits), Pow10(nf),
         <<"stod", token>>)

IsNumberToken(token) ==
  \/ IsDigit(token[1])
  \/ /\ Len(token) > 1
     /\ token[1] \in {"-", "."}
     /\ IsDigit(token[2])

FunctionNames ==
  { <<"s","i","n">>, <<"c","o","s">>, <<"t","a","n">>, <<"l","o","g">>,
    <<"l","n">>, <<"s","q","r","t">>, <<"a","b","s">>, <<"e","x","p">> }

IsOperatorToken(token) == Len(token) = 1 /\ isOperator(token[1])

\* Variant: sqrt refuses zero as log and ln do
DomainError_SqrtAtZero(token, a) ==
  IF token \in {<<"l","o","g">>, <<"l","n">>, <<"s","q","r","t">>}
    THEN LeqZero(a)
    ELSE "no"

\* The domain test of a function: "yes" (throws), "no", "unknown"
DomainError(token, a) ==
  IF token \in {<<"l","o","g">>, <<"l","n">>} THEN LeqZero(a)
  ELSE IF token = <<"s","q","r","t">> THEN LtZero(a)
  ELSE "no"

ApplyFunction(token, a) ==
  CASE token = <<"s","i","n">> -> Sin(a)
    [] token = <<"c","o","s">> -> Cos(a)
    [] token = <<"t","a","n">> -> Tan(a)
    [] token = <<"l","o","g">> -> Log("log10", a)
    [] token = <<"l","n">> -> Log("log", a)
    [] token = <<"s","q","r","t">> -> Sqrt(a)
    [] token = <<"a","b","s">> -> FAbs(a)
    [] token = <<"e","x","p">> -> Exp(a)

\* The switch on the operator: the value pushed for a op b
ApplyBinaryOp(op, a, b) ==
  CASE op = "+" -> AddSub(a, b, 1, "+")
    [] op = "-" -> AddSub(a, b, -1, "-")
    [] op = "*" -> Mul(a, b)
    [] op = "/" -> Div(a, b)
    [] op = "^" -> Pow(a, b)

\* Variant: the first value popped is taken as the left operand
PopTwo_Swapped(stk) == <<Last(stk), Last(Front(stk)), Front(Front(stk))>>

\* b = top, pop; a = top, pop: <<a, b, the stack left>>
PopTwo(stk) == <<Last(Front(stk)), Last(stk), Front(Front(stk))>>

EStep(op, token) ==
  [op |-> op, c |-> token, emits |-> <<>>, before |-> valStack]

Evaluating == pc = "eval" /\ iss # <<>>

EvalThrow(kind, detail) ==
  /\ pc' = "evalError"
  /\ err' = <<kind, detail>>

\* A comparison on a value whose sign or magnitude the model does not
\* determine: the run is not followed further
Beyond ==
  /\ pc' = "beyond"
  /\ err' = err

\* Variant: the value stack outlives the call
EvalStart_StaleStack ==
  /\ pc \in {"parsed", "parseError", "returned", "evalError", "beyond"}
  /\ \E v \in XValues : x' = v
  /\ pc' = "eval"
  /\ iss' = Tokens(postfix_)
  /\ valStack' = valStack
  /\ retval' = Zero
  /\ err' = NoEvalErr
  /\ last' = [op |-> "call", c |-> <<>>, emits |-> <<>>, before |-> <<>>]
  /\ UNCHANGED <<parserVars, postfix_, parseErr>>
  /\ UNCHANGED <<integratorVars, treeVars>>

\* A call of evaluate(x) on the stored program
EvalStart ==
  /\ pc \in {"parsed", "parseError", "returned", "evalError", "beyond"}
  /\ \E v \in XValues : x' = v
  /\ pc' = "eval"
  /\ iss' = Tokens(postfix_)
  /\ valStack' = <<>>
  /\ retval' = Zero
  /\ err' = NoEvalErr
  /\ last' = [op |-> "call", c |-> <<>>, emits |-> <<>>, before |-> <<>>]
  /\ UNCHANGED <<parserVars, postfix_, parseErr>>
  /\ UNCHANGED <<integratorVars, treeVars>>

EvalNumber ==
  /\ Evaluating
  /\ IsNumberToken(iss[1])
  /\ valStack' = Append(valStack, Stod(iss[1]))
  /\ iss' = Tail(iss)
  /\ last' = EStep("push", iss[1])
  /\ UNCHANGED <<parserVars, pc, postfix_, x, retval, parseErr, err>>
  /\ UNCHANGED <<integratorVars, treeVars>>

EvalVariable ==
  /\ Evaluating
  /\ ~IsNumberToken(iss[1])
  /\ iss[1] = <<"x">>
  /\ valStack' = Append(valStack, x)
  /\ iss' = Tail(iss)
  /\ last' = EStep("push", iss[1])
  /\ UNCHANGED <<parserVars, pc, postfix_, x, retval, parseErr, err>>
  /\ UNCHANGED <<integratorVars, treeVars>>

EvalFunction ==
  /\ Evaluating
  /\ ~IsNumberToken(iss[1])
  /\ iss[1] # <<"x">>
  /\ iss[1] \in FunctionNames
  /\ last' = EStep("function", iss[1])
  /\ IF valStack = <<>>
       THEN /\ EvalThrow("Invalid expression: requires an argument", iss[1])
            /\ UNCHANGED <<iss, valStack>>
       ELSE LET a == Last(valStack)
                dom == DomainError(iss[1], a)
            IN /\ valStack' = IF dom = "no"
                                THEN Append(Front(valStack),
                                            ApplyFunction(iss[1], a))
                                ELSE Front(valStack)
               /\ IF dom = "yes"
                    THEN /\ EvalThrow("Domain error", iss[1])
                         /\ iss' = iss
                  ELSE IF dom = "unknown"
                    THEN /\ Beyond
                         /\ iss' = iss
                  ELSE /\ iss' = Tail(iss)
                       /\ UNCHANGED <<pc, err>>
  /\ UNCHANGED <<parserVars, postfix_, x, retval, parseErr>>
  /\ UNCHANGED <<integratorVars, treeVars>>

EvalOperator ==
  /\ Evaluating
  /\ ~IsNumberToken(iss[1])
  /\ iss[1] # <<"x">>
  /\ iss[1] \notin FunctionNames
  /\ IsOperatorToken(iss[1])
  /\ last' = EStep("binary", iss[1])
  /\ IF Len(valStack) < 2
       THEN /\ EvalThrow("Invalid expression: not enough operands for operator",
                         iss[1])
            /\ UNCHANGED <<iss, valStack>>
       ELSE LET a == PopTwo(valStack)[1]
                b == PopTwo(valStack)[2]
                rest == PopTwo(valStack)[3]
                zero == IF iss[1] = <<"/">> THEN AbsBelow1e15(b) ELSE "no"
            IN /\ valStack' = IF zero = "no"
                                THEN Append(rest, ApplyBinaryOp(iss[1][1], a, b))
                                ELSE rest
               /\ IF zero = "yes"
                    THEN /\ EvalThrow("Division by zero", <<>>)
                         /\ iss' = iss
                  ELSE IF zero = "unknown"
                    THEN /\ Beyond
                         /\ iss' = iss
                  ELSE /\ iss' = Tail(iss)
                       /\ UNCHANGED <<pc, err>>
  /\ UNCHANGED <<parserVars, postfix_, x, retval, parseErr>>
  /\ UNCHANGED <<integratorVars, treeVars>>

\* A token that matches no branch of the chain: nothing is done with it
EvalOther ==
  /\ Evaluating
  /\ ~IsNumberToken(iss[1])
  /\ iss[1] # <<"x">>
  /\ iss[1] \notin FunctionNames
  /\ ~IsOperatorToken(iss[1])
  /\ iss' = Tail(iss)
  /\ last' = EStep("skip", iss[1])
  /\ UNCHANGED <<parserVars, pc, postfix_, x, valStack, retval, parseErr, err>>
  /\ UNCHANGED <<integratorVars, treeVars>>

\* After the token loop: the empty-stack test, return valStack.top()
EvalReturn ==
  /\ pc = "eval"
  /\ iss = <<>>
  /\ last' = EStep("return", <<>>)
  /\ IF valStack = <<>>
       THEN /\ EvalThrow("Invalid expression: no result computed", <<>>)
            /\ retval' = retval
       ELSE /\ pc' = "returned"
            /\ retval' = Last(valStack)
            /\ err' = err
  /\ UNCHANGED <<parserVars, postfix_, x, iss, valStack, parseErr>>
  /\ UNCHANGED <<integratorVars, treeVars>>


-----------------------------------------------------------------------------
(* evaluate as a function of the stored program and x: what one call       *)
(* does, start to end, for the callers in NumericalIntegrator              *)

Returned(v) == [kind |-> "value", val |-> v, err |-> NoEvalErr]
Failed(e) == [kind |-> "error", val |-> Zero, err |-> e]
Unknown == [kind |-> "beyond", val |-> Zero, err |-> NoEvalErr]

\* One pass of the token loop of evaluate on the value stack stk: the stack
\* after it (kind "next"), or the exception thrown
TokenStep(token, stk, v) ==
  LET Goes(stack) == [kind |-> "next", val |-> Zero, err |-> NoEvalErr,
                      stk |-> stack]
      Ends(outcome) == [kind |-> outcome.kind, val |-> Zero,
                        err |-> outcome.err, stk |-> <<>>]
  IN IF IsNumberToken(token) THEN Goes(Append(stk, Stod(token)))
     ELSE IF token = <<"x">> THEN Goes(Append(stk, v))
     ELSE IF token \in FunctionNames
       THEN IF stk = <<>>
              THEN Ends(Failed(<<"Invalid expression: requires an argument",
                                 token>>))
            ELSE IF DomainError(token, Last(stk)) = "yes"
              THEN Ends(Failed(<<"Domain error", token>>))
            ELSE IF DomainError(token, Last(stk)) = "unknown"
              THEN Ends(Unknown)
            ELSE Goes(Append(Front(stk), ApplyFunction(token, Last(stk))))
     ELSE IF IsOperatorToken(token)
       THEN IF Len(stk) < 2
              THEN Ends(Failed(
                     <<"Invalid expression: not enough operands for operator",
                       token>>))
            ELSE LET a == PopTwo(stk)[1]
                     b == PopTwo(stk)[2]
                     rest == PopTwo(stk)[3]
                     zero == IF token = <<"/">> THEN AbsBelow1e15(b) ELSE "no"
                 IN IF zero = "yes"
                      THEN Ends(Failed(<<"Division by zero", <<>>>>))
                    ELSE IF zero = "unknown" THEN Ends(Unknown)
                    ELSE Goes(Append(rest, ApplyBinaryOp(token[1], a, b)))
     ELSE Goes(stk)

\* The token loop of evaluate on the tokens toks from the value stack stk,
\* then the final test of the stack
RECURSIVE RunTokens(_, _, _)
RunTokens(toks, stk, v) ==
  IF toks = <<>>
    THEN IF stk = <<>>
           THEN Failed(<<"Invalid expression: no result computed", <<>>>>)
           ELSE Returned(Last(stk))
  ELSE CHOOSE outcome \in
         {IF r.kind = "next" THEN RunTokens(rest, r.stk, at)
          ELSE [kind |-> r.kind, val |-> Zero, err |-> r.err] :
            r \in {TokenStep(toks[1], stk, v)}, rest \in {Tail(toks)},
            at \in {v}} : TRUE

\* parser_.evaluate(v) on the program
Evaluate(program, v) == RunTokens(Tokens(program), <<>>, v)

-----------------------------------------------------------------------------
(* The expressions given to infixToPostfix                                 *)

MaxLexemes == 3
MaxOps == 2
MaxParens == 5

RECURSIVE Concat(_)
Concat(ss) == IF ss = <<>> THEN <<>> ELSE ss[1] \o Concat(Tail(ss))

SeqsUpTo(S, n) == UNION {[1..k -> S] : k \in 0..n}

\* Pieces of input text: every character class of the loop, three functions
Lexemes ==
  {
    <<"x">>, <<"2">>, <<"0">>, <<".">>, <<"+">>, <<"-">>, <<"*">>, <<"/">>,
    <<"^">>, <<"(">>, <<")">>, <<" ">>, <<"$">>, <<"s","i","n">>,
    <<"l","n">>, <<"s","q","r","t">>
  }

\* Every string of at most MaxLexemes pieces
GeneralInputs == {Concat(ss) : ss \in SeqsUpTo(Lexemes, MaxLexemes)}

Operands == {<<"x">>, <<"2">>, <<"3">>}
Operators == {<<"+">>, <<"-">>, <<"*">>, <<"/">>, <<"^">>}

\* operand (operator operand)^k for k <= MaxOps
RECURSIVE Chains(_)
Chains(k) ==
  IF k = 0 THEN Operands
  ELSE Chains(k - 1) \cup
       {c \o o \o a : c \in Chains(k - 1), o \in Operators, a \in Operands}

\* Two operators with one of the two operations parenthesised
Grouped ==
  {<<"(", "x">> \o o1 \o <<"2", ")">> \o o2 \o <<"3">> :
      o1 \in Operators, o2 \in Operators} \cup
  {<<"x">> \o o1 \o <<"(", "2">> \o o2 \o <<"3", ")">> :
      o1 \in Operators, o2 \in Operators}

\* Every string of at most MaxParens parentheses, operands and operators
ParenInputs ==
  {Concat(ss) : ss \in SeqsUpTo({<<"(">>, <<")">>, <<"x">>, <<"+">>}, MaxParens)}

Names ==
  {
    <<"s","i","n">>, <<"c","o","s">>, <<"t","a","n">>, <<"l","o","g">>,
    <<"l","n">>, <<"s","q","r","t">>, <<"a","b","s">>, <<"e","x","p">>,
    <<"p","i">>, <<"e">>, <<"f","o","o">>, <<"S","i","n">>
  }

Arguments ==
  {
    <<>>, <<"(",")">>, <<"(","x",")">>, <<"(","0",")">>,
    <<"(","0","-","x",")">>, <<" ","x">>, <<"(","2",")">>, <<"(","x">>,
    <<"x",")">>, <<"(","x",")","^","2">>, <<"(","x",")","/","x">>
  }

\* Every identifier of the registry (and two outside it) with an argument
CallInputs == {n \o a : n \in Names, a \in Arguments}

\* The examples of printHelp and of the menu's "Enter function" prompt
HelpExamples ==
  {
    <<"x","^","2">>, <<"2","*","x"," ","+"," ","3">>,
    <<"s","i","n","(","x",")">>,
    <<"x","^","2"," ","+"," ","2","*","x"," ","+"," ","1">>,
    <<"e","x","p","(","-","x","^","2",")">>, <<"1","/","x">>,
    <<"s","q","r","t","(","1","-","x","^","2",")">>,
    <<"x","^","2"," ","*"," ","e","x","p","(","-","x",")">>
  }

\* The other examples of printQuickReference and runTests, and further text
OtherExamples ==
  {
    <<"x","^","3"," ","-"," ","2","*","x"," ","+"," ","5">>,
    <<"s","i","n","(","x","^","2",")">>,
    <<"x"," ","*"," ","s","i","n","(","x",")">>,
    <<"2","*","p","i","*","x">>, <<"l","n","(","x",")"," ","/"," ","x">>,
    <<"1","0","0"," ","+"," ","2","5","*","x">>, <<"1",".","2",".","3">>,
    <<"X">>, <<"(","s","i","n"," ","x",")">>,
    <<"l","n","(","s","i","n","(","x",")","-","x",")">>,
    <<"1","/","(","x","*","x",")">>, <<"(","x","+","2",")","*","3">>,
    <<"x","^","(","2","+","x",")">>
  }

Inputs ==
  GeneralInputs \cup Chains(MaxOps) \cup Grouped \cup ParenInputs
    \cup CallInputs \cup HelpExamples \cup OtherExamples

-----------------------------------------------------------------------------
(* NumericalIntegrator.  An operation starts when no other is under way;   *)
(* report, calls and console record what the operation under way (or, when *)
(* none is, the last one) has reported, which points it has passed to the  *)
(* evaluator, and which notes the class has printed.                       *)

MaxSubdivisions == 3

\* The count of runTests and of the constructor, and the function of Test 1
TestSubdivisions == 1000
TestIntegrand == <<"x","^","2">>

\* The functions entered: text that evaluates everywhere, text that fails at
\* some points only, with one error or with two, text that never evaluates,
\* text with a character of no class, and text that does not parse
Integrands ==
  {
    <<"x","^","2">>, <<"1","/","x">>, <<"l","n","(","x",")">>,
    <<"1","/","x"," ","+"," ","l","n","(","1","-","x",")">>,
    <<"x"," ","+">>, <<"x","$">>, <<"(","x">>
  }

\* The numbers entered as bounds, and as subdivision counts: the model
\* follows the evaluator calls of a rule one by one up to MaxSubdivisions
\* strips and at the count of runTests, and at the largest int it follows
\* what becomes of the count
BoundValues == {Rat(k, 1, <<>>) : k \in -1..2}
SubdivisionValues ==
  {-1, 0} \cup 1..MaxSubdivisions \cup {TestSubdivisions, IntMax}
Followed ==
  subdivisions_ <= MaxSubdivisions \/ subdivisions_ = TestSubdivisions

IntOf(k) == Rat(k, 1, <<>>)

\* a > b on two numbers entered
GreaterThan(a, b) == a.n * b.d > b.n * a.d

Idle == ipc = "idle" /\ pc \in {"parsed", "parseError"}

\* setExpression(expr): infix_ = expr, then parser_.infixToPostfix(expr),
\* whose character loop the Parse actions run from here
SetExpression ==
  /\ Idle
  /\ \E e \in Integrands :
       /\ infix_' = e
       /\ expr' = e
       /\ request' = [op |-> "setExpression", args |-> <<e>>]
  /\ pc' = "scan"
  /\ pos' = 1
  /\ opStack' = <<>>
  /\ result' = <<>>
  /\ parenCount' = 0
  /\ parseErr' = NoErr
  /\ last' = [op |-> "init", c |-> <<>>, emits |-> <<>>, before |-> <<>>]
  /\ report' = <<>>
  /\ calls' = <<>>
  /\ console' = <<>>
  /\ UNCHANGED <<postfix_, evalVars, err, treeVars, lowerBound_, upperBound_,
                 subdivisions_, ipc, parts, step, sum, idx>>

\* Variant: the bounds are stored as given
SetBounds_Unordered ==
  /\ Idle
  /\ \E lower \in BoundValues, upper \in BoundValues :
       /\ request' = [op |-> "setBounds", args |-> <<lower, upper>>]
       /\ lowerBound_' = lower
       /\ upperBound_' = upper
       /\ console' = <<>>
  /\ report' = <<>>
  /\ calls' = <<>>
  /\ UNCHANGED <<parserVars, pc, postfix_, evalVars, parseErr, err, last,
                 treeVars,
                 infix_, subdivisions_, ipc, parts, step, sum, idx>>

\* setBounds(lower, upper)
SetBounds ==
  /\ Idle
  /\ \E lower \in BoundValues, upper \in BoundValues :
       /\ request' = [op |-> "setBounds", args |-> <<lower, upper>>]
       /\ IF GreaterThan(lower, upper)
            THEN /\ lowerBound_' = upper
                 /\ upperBound_' = lower
                 /\ console' = <<"Note: Bounds were swapped (lower > upper)">>
            ELSE /\ lowerBound_' = lower
                 /\ upperBound_' = upper
                 /\ console' = <<>>
  /\ report' = <<>>
  /\ calls' = <<>>
  /\ UNCHANGED <<parserVars, pc, postfix_, evalVars, parseErr, err, last,
                 treeVars,
                 infix_, subdivisions_, ipc, parts, step, sum, idx>>

\* Variant: the count is stored as given
SetSubdivisions_Unclamped ==
  /\ Idle
  /\ \E k \in SubdivisionValues :
       /\ request' = [op |-> "setSubdivisions", args |-> <<k>>]
       /\ subdivisions_' = k
       /\ console' = <<>>
  /\ report' = <<>>
  /\ calls' = <<>>
  /\ UNCHANGED <<parserVars, pc, postfix_, evalVars, parseErr, err, last,
                 treeVars,
                 infix_, lowerBound_, upperBound_, ipc, parts, step, sum, idx>>

\* setSubdivisions(n)
SetSubdivisions ==
  /\ Idle
  /\ \E k \in SubdivisionValues :
       /\ request' = [op |-> "setSubdivisions", args |-> <<k>>]
       /\ IF k < 1
            THEN /\ subdivisions_' = 1
                 /\ console' =
                      <<"Warning: Subdivisions must be at least 1. Using 1.">>
            ELSE /\ subdivisions_' = k
                 /\ console' = <<>>
  /\ report' = <<>>
  /\ calls' = <<>>
  /\ UNCHANGED <<parserVars, pc, postfix_, evalVars, parseErr, err, last,
                 treeVars,
                 infix_, lowerBound_, upperBound_, ipc, parts, step, sum, idx>>

\* std::ostream << double, for a whole number of at most six digits (the
\* bounds entered are such numbers): written as the int is
StreamDouble(v) == StreamInt(v.n)

BoundsSetTo(lower, upper) ==
  <<"Bounds set to [">> \o StreamDouble(lower) \o <<", ">>
    \o StreamDouble(upper) \o <<"]">>

SubdivisionsSetTo(k) == <<"Subdivisions set to ">> \o StreamInt(k)

\* Menu option 2: two numbers are read (or one is not a number, which ends
\* the option), setBounds(lower, upper) is called and the confirmation is
\* printed
MenuSetBounds ==
  /\ Idle
  /\ \/ /\ request' = [op |-> "menu 2", args |-> <<>>]
        /\ console' = <<"Invalid number.">>
        /\ UNCHANGED <<lowerBound_, upperBound_>>
     \/ \E lower \in BoundValues, upper \in BoundValues :
          /\ request' = [op |-> "menu 2", args |-> <<lower, upper>>]
          /\ IF GreaterThan(lower, upper)
               THEN /\ lowerBound_' = upper
                    /\ upperBound_' = lower
                    /\ console' =
                         <<"Note: Bounds were swapped (lower > upper)">>
                           \o BoundsSetTo(lower, upper)
               ELSE /\ lowerBound_' = lower
                    /\ upperBound_' = upper
                    /\ console' = BoundsSetTo(lower, upper)
  /\ report' = <<>>
  /\ calls' = <<>>
  /\ UNCHANGED <<parserVars, pc, postfix_, evalVars, parseErr, err, last,
                 treeVars,
                 infix_, subdivisions_, ipc, parts, step, sum, idx>>

\* Menu option 3: a number is read (or what is entered is no number, which
\* ends the option), setSubdivisions(n) is called and the confirmation is
\* printed
MenuSetSubdivisions ==
  /\ Idle
  /\ \/ /\ request' = [op |-> "menu 3", args |-> <<>>]
        /\ console' = <<"Invalid number.">>
        /\ subdivisions_' = subdivisions_
     \/ \E k \in SubdivisionValues :
          /\ request' = [op |-> "menu 3", args |-> <<k>>]
          /\ IF k < 1
               THEN /\ subdivisions_' = 1
                    /\ console' =
                         <<"Warning: Subdivisions must be at least 1. Using 1.">>
                           \o SubdivisionsSetTo(k)
               ELSE /\ subdivisions_' = k
                    /\ console' = SubdivisionsSetTo(k)
  /\ report' = <<>>
  /\ calls' = <<>>
  /\ UNCHANGED <<parserVars, pc, postfix_, evalVars, parseErr, err, last,
                 treeVars,
                 infix_, lowerBound_, upperBound_, ipc, parts, step, sum, idx>>

\* f(x): parser_.evaluate(x) on the stored program
F(point) == Evaluate(postfix_, point)

\* (upperBound_ - lowerBound_) / n; for n = -2^31 a value of the opposite
\* sign and of a magnitude between 10^-10 and 10^-9 times that of the length
Width(k) ==
  LET length == AddSub(upperBound_, lowerBound_, -1, "-")
  IN IF k # IntMin THEN Div(length, IntOf(k))
     ELSE IF IsZero(length) THEN Zero
     ELSE Sym(-length.sg, length.lo - 10, length.hi - 9,
              <<"/", length, <<"-2^31">>>>)

\* lowerBound_ + i * h
GridPoint(k) == AddSub(lowerBound_, Mul(IntOf(k), step), 1, "+")

\* Variant: the left end of the i-th strip
MidPoint_LeftEnd(k) == AddSub(lowerBound_, Mul(IntOf(k), step), 1, "+")

\* lowerBound_ + (i + 0.5) * h
MidPoint(k) == AddSub(lowerBound_, Mul(Rat(2 * k + 1, 2, <<>>), step), 1, "+")

\* Variant: the end points count in full
TrapezoidEnds_Whole(ends) == ends

\* 0.5 * (f(lowerBound_) + f(upperBound_))
TrapezoidEnds(ends) == Mul(Rat(1, 2, <<>>), ends)

\* Variant: every interior point weighs 2
SimpsonWeight_Flat(k) == 2

\* (i % 2 == 0) ? 2 * f(x) : 4 * f(x)
SimpsonWeight(k) == IF k % 2 = 0 THEN 2 ELSE 4

\* 2 * f(x) or 4 * f(x)
Weighted(k, v) == Mul(IntOf(SimpsonWeight(k)), v)

\* int n = subdivisions_; if (n % 2 != 0) n++;  The values n can then
\* have: at the largest int the increment overflows, which is undefined;
\* the int wraps to -2^31 (SimpsonUnfollowed is the other outcome)
SimpsonParts(k) ==
  IF k % 2 = 0 THEN {k} ELSE IF k = IntMax THEN {IntMin} ELSE {k + 1}

\* Variant: the first failure ends computeAll
NextRule_Abort(method, failed) ==
  IF failed THEN "idle"
  ELSE IF method = "trapezoidal" THEN "simpson"
  ELSE IF method = "simpson" THEN "midpoint"
  ELSE "idle"

\* The order of the three try blocks of computeAll
NextRule(method, failed) ==
  IF method = "trapezoidal" THEN "simpson"
  ELSE IF method = "simpson" THEN "midpoint"
  ELSE "idle"

Line(method, kind, val, e) ==
  [method |-> method, kind |-> kind, val |-> val, err |-> e]

\* The rule's frame is left: its locals are gone
Left == parts' = 0 /\ step' = Zero /\ sum' = Zero /\ idx' = 0

\* catch (const std::exception &e) of computeAll: the error is printed under
\* the rule's name and the next try block follows
Caught(method, e) ==
  /\ report' = Append(report, Line(method, "error", Zero, e))
  /\ ipc' = NextRule(method, TRUE)
  /\ Left

\* The rule has returned v: computeAll prints it under the rule's name
Printed(method, v) ==
  /\ report' = Append(report, Line(method, "value", v, NoEvalErr))
  /\ ipc' = NextRule(method, FALSE)
  /\ Left

\* A comparison of evaluate that the model does not determine
Undecided ==
  /\ ipc' = "beyond"
  /\ UNCHANGED <<report, parts, step, sum, idx>>

\* The two operands of f(lowerBound_) + f(upperBound_) are evaluated in an
\* order the language leaves open; order is the order taken.  The first
\* failure is thrown and the other operand, if not yet evaluated, is not.
EndpointSum(order) ==
  LET first == F(order[1])
      second == F(order[2])
  IN IF first.kind # "value"
       THEN [kind |-> first.kind, val |-> Zero, err |-> first.err,
             called |-> <<order[1]>>]
     ELSE IF second.kind # "value"
       THEN [kind |-> second.kind, val |-> Zero, err |-> second.err,
             called |-> order]
     ELSE [kind |-> "value",
           val |-> AddSub(F(lowerBound_).val, F(upperBound_).val, 1, "+"),
           err |-> NoEvalErr, called |-> order]

EndpointOrders ==
  {<<lowerBound_, upperBound_>>, <<upperBound_, lowerBound_>>}

\* The calls of f are recorded, but for those of Test 1 of runTests, 3002 in
\* number
Called(method, points) ==
  calls' = IF subdivisions_ = TestSubdivisions
             THEN calls
             ELSE calls \o [k \in DOMAIN points |-> <<method, points[k]>>]

Computing ==
  UNCHANGED <<parserVars, pc, postfix_, evalVars, parseErr, err, last,
              treeVars,
              infix_, lowerBound_, upperBound_, subdivisions_, console,
              request>>

\* A rule at a count of more than MaxSubdivisions strips, whose calls the
\* model does not follow: whether the rule returns or throws, computeAll
\* prints a line and goes on.  For simpsonsRule this is the outcome of the
\* overflowing increment in which n + 1 is 2^31 in a wider register.
Unfollowed(method) ==
  /\ ipc = method
  /\ ~Followed
  /\ report' = Append(report, Line(method, "unfollowed", Zero, NoEvalErr))
  /\ ipc' = NextRule(method, FALSE)
  /\ Left
  /\ calls' = calls
  /\ Computing

\* computeAll() at one of the counts: the header, with the text of the
\* function
ComputeAllAt(counts) ==
  /\ Idle
  /\ subdivisions_ \in counts
  /\ request' = [op |-> "computeAll", args |-> <<>>]
  /\ console' = <<"Function: f(x) = ">> \o infix_
  /\ report' = <<>>
  /\ calls' = <<>>
  /\ ipc' = "trapezoidal"
  /\ UNCHANGED <<parserVars, pc, postfix_, evalVars, parseErr, err, last,
                 treeVars,
                 infix_, lowerBound_, upperBound_, subdivisions_, parts,
                 step, sum, idx>>

\* Menu option 4
ComputeAll == ComputeAllAt(1..MaxSubdivisions \cup {IntMax})

\* Test 1 of runTests: computeAll() with x^2, the bounds 0 and 1 and 1000
\* subdivisions set
TestComputeAll ==
  /\ infix_ = TestIntegrand
  /\ lowerBound_ = Zero
  /\ upperBound_ = One
  /\ ComputeAllAt({TestSubdivisions})

\* trapezoidalRule: h and the two end points
TrapezoidalStart ==
  /\ ipc = "trapezoidal"
  /\ Followed
  /\ \E order \in EndpointOrders :
       \E ends \in {EndpointSum(order)} :
          /\ Called("trapezoidal", ends.called)
          /\ IF ends.kind = "value"
               THEN /\ parts' = subdivisions_
                    /\ step' = Width(subdivisions_)
                    /\ sum' = TrapezoidEnds(ends.val)
                    /\ idx' = 1
                    /\ ipc' = "trapezoidalLoop"
                    /\ report' = report
             ELSE IF ends.kind = "error"
               THEN Caught("trapezoidal", ends.err)
             ELSE Undecided
  /\ Computing

\* trapezoidalRule: an interior point
TrapezoidalLoop ==
  /\ ipc = "trapezoidalLoop"
  /\ idx < subdivisions_
  /\ \E fx \in {F(GridPoint(idx))} :
        /\ Called("trapezoidal", <<GridPoint(idx)>>)
        /\ IF fx.kind = "value"
             THEN /\ sum' = AddSub(sum, fx.val, 1, "+")
                  /\ idx' = idx + 1
                  /\ UNCHANGED <<ipc, report, parts, step>>
           ELSE IF fx.kind = "error"
             THEN Caught("trapezoidal", fx.err)
           ELSE Undecided
  /\ Computing

\* trapezoidalRule: return h * sum
TrapezoidalReturn ==
  /\ ipc = "trapezoidalLoop"
  /\ ~(idx < subdivisions_)
  /\ Printed("trapezoidal", Mul(step, sum))
  /\ calls' = calls
  /\ Computing

\* simpsonsRule: n, h and the two end points
SimpsonStart ==
  /\ ipc = "simpson"
  /\ \E order \in EndpointOrders, count \in SimpsonParts(subdivisions_) :
       \E ends \in {EndpointSum(order)} :
          /\ Called("simpson", ends.called)
          /\ IF ends.kind = "value"
               THEN /\ parts' = count
                    /\ step' = Width(count)
                    /\ sum' = ends.val
                    /\ idx' = 1
                    /\ ipc' = "simpsonLoop"
                    /\ report' = report
             ELSE IF ends.kind = "error"
               THEN Caught("simpson", ends.err)
             ELSE Undecided
  /\ Computing

\* simpsonsRule: an interior point
SimpsonLoop ==
  /\ ipc = "simpsonLoop"
  /\ idx < parts
  /\ \E fx \in {F(GridPoint(idx))} :
        /\ Called("simpson", <<GridPoint(idx)>>)
        /\ IF fx.kind = "value"
             THEN /\ sum' = AddSub(sum, Weighted(idx, fx.val), 1, "+")
                  /\ idx' = idx + 1
                  /\ UNCHANGED <<ipc, report, parts, step>>
           ELSE IF fx.kind = "error"
             THEN Caught("simpson", fx.err)
           ELSE Undecided
  /\ Computing

\* simpsonsRule: return (h / 3) * sum
SimpsonReturn ==
  /\ ipc = "simpsonLoop"
  /\ ~(idx < parts)
  /\ Printed("simpson", Mul(Div(step, IntOf(3)), sum))
  /\ calls' = calls
  /\ Computing

\* midpointRule: h and the empty sum
MidpointStart ==
  /\ ipc = "midpoint"
  /\ Followed
  /\ parts' = subdivisions_
  /\ step' = Width(subdivisions_)
  /\ sum' = Zero
  /\ idx' = 0
  /\ ipc' = "midpointLoop"
  /\ UNCHANGED <<report, calls>>
  /\ Computing

\* midpointRule: the middle of a strip
MidpointLoop ==
  /\ ipc = "midpointLoop"
  /\ idx < subdivisions_
  /\ \E fx \in {F(MidPoint(idx))} :
        /\ Called("midpoint", <<MidPoint(idx)>>)
        /\ IF fx.kind = "value"
             THEN /\ sum' = AddSub(sum, fx.val, 1, "+")
                  /\ idx' = idx + 1
                  /\ UNCHANGED <<ipc, report, parts, step>>
           ELSE IF fx.kind = "error"
             THEN Caught("midpoint", fx.err)
           ELSE Undecided
  /\ Computing

\* midpointRule: return h * sum
MidpointReturn ==
  /\ ipc = "midpointLoop"
  /\ ~(idx < subdivisions_)
  /\ Printed("midpoint", Mul(step, sum))
  /\ calls' = calls
  /\ Computing

-----------------------------------------------------------------------------
(* Binary tree visualizer: TreeNode, Codec, TreeOperations.  heap holds    *)
(* the TreeNode objects that are alive, by id.  A pointer is 0 (nullptr),  *)
(* the id of a node that is alive, or Invalid: the value of a pointer to a *)
(* node that has been deleted, which is not to be dereferenced or deleted. *)

MaxNodes == 3
MaxLost == 2

Invalid == -1

NullText == <<"n","u","l","l">>

\* TreeNode(int x)
TreeNode(v) == [val |-> v, left |-> 0, right |-> 0]

\* The id the next new TreeNode gets: the least one not in use
NewId(h) ==
  CHOOSE id \in 1..(Cardinality(DOMAIN h) + 1) :
    /\ id \notin DOMAIN h
    /\ \A j \in 1..(id - 1) : j \in DOMAIN h

\* new TreeNode(x)
New(h, v) ==
  LET id == NewId(h)
  IN [k \in DOMAIN h \cup {id} |-> IF k = id THEN TreeNode(v) ELSE h[k]]

\* delete node
Delete(h, node) == [k \in DOMAIN h \ {node} |-> h[k]]

\* What a pointer variable holds once the heap is h
Held(h, p) == IF p = 0 \/ p \in DOMAIN h THEN p ELSE Invalid

\* std::to_string(int)
to_string(k) ==
  IF k >= 0 THEN DigitsOf(k)
  ELSE IF k = IntMin THEN <<"-">> \o Front(DigitsOf(IntMax)) \o <<"8">>
  ELSE <<"-">> \o DigitsOf(-k)

\* The number a run of digits stands for, or -1 when it is above INT_MAX
RECURSIVE Magnitude(_, _)
Magnitude(ds, acc) ==
  IF ds = <<>> THEN acc
  ELSE IF acc > (IntMax - DigitVal(ds[1])) \div 10 THEN -1
  ELSE Magnitude(Tail(ds), 10 * acc + DigitVal(ds[1]))

\* std::stoi: white space, an optional sign, digits; what follows the digits
\* is ignored.  ok is FALSE when it throws: no digit (invalid_argument) or a
\* number that is no int (out_of_range)
Stoi(token) ==
  LET ns == RunLen(token, 1, {" ", "\t", "\n", "\r", "\f"})
      body == SubSeq(token, ns + 1, Len(token))
      signed == body # <<>> /\ body[1] \in {"+", "-"}
      neg == signed /\ body[1] = "-"
      rest == IF signed THEN Tail(body) ELSE body
      nd == RunLen(rest, 1, Range(Digits))
      m == Magnitude(SubSeq(rest, 1, nd), 0)
      least == Magnitude(Front(SubSeq(rest, 1, nd)), 0) = IntMax \div 10
                 /\ rest[nd] = "8"
  IN IF nd = 0 THEN [ok |-> FALSE, val |-> 0]
     ELSE IF m >= 0 THEN [ok |-> TRUE, val |-> IF neg THEN -m ELSE m]
     ELSE IF neg /\ least THEN [ok |-> TRUE, val |-> IntMin]
     ELSE [ok |-> FALSE, val |-> 0]

\* Variant: nothing is written for a missing child
RECURSIVE SerializeLoop_NoNull(_, _, _)
SerializeLoop_NoNull(h, q, values) ==
  IF q = <<>> THEN values
  ELSE LET node == Head(q)
       IN IF node # 0
            THEN SerializeLoop_NoNull(h,
                   Tail(q) \o <<h[node].left, h[node].right>>,
                   Append(values, to_string(h[node].val)))
            ELSE SerializeLoop_NoNull(h, Tail(q), values)

\* The while loop of serialize: the queue holds node ids and 0 for nullptr
RECURSIVE SerializeLoop(_, _, _)
SerializeLoop(h, q, values) ==
  IF q = <<>> THEN values
  ELSE LET node == Head(q)
       IN IF node # 0
            THEN SerializeLoop(h, Tail(q) \o <<h[node].left, h[node].right>>,
                               Append(values, to_string(h[node].val)))
            ELSE SerializeLoop(h, Tail(q), Append(values, NullText))

\* Remove trailing nulls
RECURSIVE DropNulls(_)
DropNulls(values) ==
  IF values # <<>> /\ Last(values) = NullText
    THEN DropNulls(Front(values))
    ELSE values

\* The values with a comma between two of them
RECURSIVE Joined(_)
Joined(values) ==
  IF values = <<>> THEN <<>>
  ELSE IF Len(values) = 1 THEN values[1]
  ELSE values[1] \o <<",">> \o Joined(Tail(values))

\* Codec::serialize(root)
Serialize(h, r) ==
  IF r = 0 THEN <<"[", "]">>
  ELSE <<"[">> \o Joined(DropNulls(SerializeLoop(h, <<r>>, <<>>))) \o <<"]">>

\* std::remove and erase of one character
Erase(s, c) == SelectSeq(s, LAMBDA ch : ch # c)

\* The std::getline(ss, token, ',') loop
RECURSIVE Split(_)
Split(s) ==
  IF s = <<>> THEN <<>>
  ELSE LET n == RunLen(s, 1, Range(s) \ {","})
       IN <<SubSeq(s, 1, n)>> \o Split(SubSeq(s, n + 2, Len(s)))

\* One of the two blocks of the loop of deserialize: the child of node on a
\* side, from values[i].  st is [heap, q, threw]
Child(st, node, values, i, side) ==
  IF st.threw \/ i > Len(values) THEN st
  ELSE IF values[i] = NullText THEN st
  ELSE LET number == Stoi(values[i])
           id == NewId(st.heap)
       IN IF ~number.ok THEN [st EXCEPT !.threw = TRUE]
          ELSE [heap |-> [New(st.heap, number.val) EXCEPT ![node][side] = id],
                q |-> Append(st.q, id),
                threw |-> FALSE]

\* The while loop of deserialize; i is the index into values, from 1
RECURSIVE DeserializeLoop(_, _, _)
DeserializeLoop(st, values, i) ==
  IF st.threw \/ st.q = <<>> \/ i > Len(values) THEN st
  ELSE LET node == Head(st.q)
           l == Child([st EXCEPT !.q = Tail(st.q)], node, values, i, "left")
           r == Child(l, node, values, i + 1, "right")
       IN DeserializeLoop(r, values, i + 2)

\* Codec::deserialize(data): the heap with the nodes made, the pointer
\* returned, and whether std::stoi threw instead
Deserialize(h, text) ==
  LET cleanData == Erase(Erase(Erase(text, "["), "]"), " ")
      values == Split(cleanData)
      none == [heap |-> h, root |-> 0, threw |-> FALSE]
      number == Stoi(values[1])
      id == NewId(h)
      st == DeserializeLoop([heap |-> New(h, number.val), q |-> <<id>>,
                             threw |-> FALSE], values, 2)
  IN IF text = <<>> \/ text = <<"[", "]">> THEN none
     ELSE IF cleanData = <<>> THEN none
     ELSE IF values = <<>> \/ values[1] = NullText THEN none
     ELSE IF ~number.ok THEN [heap |-> h, root |-> 0, threw |-> TRUE]
     ELSE [heap |-> st.heap, root |-> id, threw |-> st.threw]

\* TreeOperations::mirror(root): the heap with the copy, and its root
RECURSIVE mirror(_, _)
mirror(h, r) ==
  IF r = 0 THEN [heap |-> h, root |-> 0]
  ELSE LET newNode == NewId(h)
           l == mirror(New(h, h[r].val), h[r].right)
           rr == mirror(l.heap, h[r].left)
       IN [heap |-> [rr.heap EXCEPT ![newNode].left = l.root,
                                    ![newNode].right = rr.root],
           root |-> newNode]

\* TreeOperations::deleteTree(root): the heap without the nodes, or, when it
\* comes upon a pointer to a deleted node, undefined behaviour
RECURSIVE deleteTree(_, _)
deleteTree(h, r) ==
  IF r = 0 THEN [heap |-> h, undefined |-> FALSE]
  ELSE IF r \notin DOMAIN h THEN [heap |-> h, undefined |-> TRUE]
  ELSE LET l == deleteTree(h, h[r].left)
           rr == deleteTree(l.heap, h[r].right)
       IN [heap |-> Delete(rr.heap, r),
           undefined |-> l.undefined \/ rr.undefined]

\* What is entered at option 1
TreeInputs ==
  { <<>>,
    <<"[", "]">>,
    <<"[", "1", "]">>,
    <<"[", "1", ",", "2", ",", "3", "]">>,
    <<"[", "1", ",", "n", "u", "l", "l", ",", "-", "2", "]">>,
    <<"4", ",", " ", "1", "5">>,
    <<"[", "n", "u", "l", "l", ",", "1", "]">>,
    <<"[", "x", "]">>,
    <<"[", "7", ",", "x", "]">>,
    <<"[", "7", ",", "8", ",", ",", "9", "]">> }

\* The four examples of option 2
Examples ==
  << <<"[", "1", ",", "2", ",", "3", ",", "4", ",", "5", ",", "6", ",", "7",
       "]">>,
     <<"[", "3", ",", "9", ",", "2", "0", ",", "n", "u", "l", "l", ",",
       "n", "u", "l", "l", ",", "1", "5", ",", "7", "]">>,
     <<"[", "1", ",", "2", ",", "n", "u", "l", "l", ",", "3", ",",
       "n", "u", "l", "l", ",", "4", ",", "n", "u", "l", "l", ",", "5", "]">>,
     <<"[", "5", ",", "3", ",", "7", ",", "2", ",", "4", ",", "6", ",", "8",
       "]">> >>

\* The trees of runDemoTests, Test 1 to Test 5
DemoTexts ==
  << <<"[", "]">>,
     <<"[", "4", "2", "]">>,
     Examples[1],
     Examples[2],
     Examples[4] >>

\* TreeApp(): root(nullptr)
TreeAppConstructed ==
  /\ heap = <<>>
  /\ root = 0
  /\ data = <<>>
  /\ copy = 0
  /\ lost = 0
  /\ tpc = "menu"
  /\ chosen = [option |-> "none", input |-> <<>>]

Calculator == UNCHANGED <<parserVars, pc, postfix_, evalVars, parseErr, err,
                          last, integratorVars>>

\* A deleted node is read or deleted again: what the program does from here
\* on is not defined
Undefined ==
  /\ tpc' = "undefined"
  /\ UNCHANGED <<heap, root, data, copy, lost>>

\* Menu option 1: the tree is deleted, then the root is set from the text
\* entered; when deserialize throws, the catch block prints a message
EnterTree ==
  /\ tpc = "menu"
  /\ \E input \in TreeInputs :
       \E gone \in {deleteTree(heap, root)} :
         \E made \in {Deserialize(gone.heap, input)} :
           /\ chosen' = [option |-> "1", input |-> input]
           /\ IF gone.undefined THEN Undefined
              ELSE IF made.threw
                THEN \E left \in
                          {Cardinality(DOMAIN made.heap \ DOMAIN gone.heap)} :
                       /\ lost + left <= MaxLost
                       /\ lost' = lost + left
                       /\ heap' = gone.heap
                       /\ root' = Held(gone.heap, root)
                       /\ UNCHANGED <<data, copy, tpc>>
                ELSE /\ heap' = made.heap
                     /\ root' = made.root
                     /\ UNCHANGED <<data, copy, lost, tpc>>
  /\ Calculator

\* Menu option 2: a number is read, the tree is deleted, then the root is set
\* from the example of that number, if there is one
LoadExample ==
  /\ tpc = "menu"
  /\ \E ex \in 0..(Len(Examples) + 1) :
       \E gone \in {deleteTree(heap, root)} :
         /\ chosen' = [option |-> "2", input |-> <<ex>>]
         /\ IF gone.undefined THEN Undefined
            ELSE IF ex \in DOMAIN Examples
              THEN \E made \in {Deserialize(gone.heap, Examples[ex])} :
                     /\ heap' = made.heap
                     /\ root' = made.root
                     /\ UNCHANGED <<data, copy, lost, tpc>>
              ELSE /\ heap' = gone.heap
                   /\ root' = Held(gone.heap, root)
                   /\ UNCHANGED <<data, copy, lost, tpc>>
  /\ Calculator

\* Menu options 3, 4 and 6 to 12: the tree is read from the root and printed
\* (what is printed is not followed)
Inspect ==
  /\ tpc = "menu"
  /\ \E option \in {"3", "4", "6", "7", "8", "9", "10", "11", "12"} :
       chosen' = [option |-> option, input |-> <<>>]
  /\ IF root = Invalid THEN Undefined
     ELSE UNCHANGED <<heap, root, data, copy, lost, tpc>>
  /\ Calculator

\* Menu option 5: Codec::serialize(root) is printed
SerializeRoot ==
  /\ tpc = "menu"
  /\ chosen' = [option |-> "5", input |-> <<>>]
  /\ IF root = Invalid THEN Undefined
     ELSE /\ data' = Serialize(heap, root)
          /\ UNCHANGED <<heap, root, copy, lost, tpc>>
  /\ Calculator

\* Menu option 13: a mirrored copy is made, printed and deleted
Mirror ==
  /\ tpc = "menu"
  /\ chosen' = [option |-> "13", input |-> <<>>]
  /\ IF root = 0 THEN UNCHANGED <<heap, root, data, copy, lost, tpc>>
     ELSE IF root = Invalid THEN Undefined
     ELSE \E mirrored \in {mirror(heap, root)} :
            \E gone \in {deleteTree(mirrored.heap, mirrored.root)} :
              /\ heap' = gone.heap
              /\ copy' = Held(gone.heap, mirrored.root)
              /\ UNCHANGED <<root, data, lost, tpc>>
  /\ Calculator

\* Menu option 14, a number that is no option, or no number: the help or a
\* message is printed
Other ==
  /\ tpc = "menu"
  /\ \E option \in {"14", "16", "?"} :
       chosen' = [option |-> option, input |-> <<>>]
  /\ UNCHANGED <<heap, root, data, copy, lost, tpc>>
  /\ Calculator

\* runDemoTests from Test k on: each tree is made from its text and deleted;
\* Test 3 serializes its tree.  st is [heap, data, local]
RECURSIVE DemoTestsFrom(_, _)
DemoTestsFrom(st, k) ==
  IF k > Len(DemoTexts) THEN st
  ELSE LET t == Deserialize(st.heap, DemoTexts[k])
           gone == deleteTree(t.heap, t.root)
       IN DemoTestsFrom([heap |-> gone.heap,
                         data |-> IF k = 3 THEN Serialize(t.heap, t.root)
                                  ELSE st.data,
                         local |-> Held(gone.heap, t.root)],
                        k + 1)

\* Menu option 15: runDemoTests()
DemoTests ==
  /\ tpc = "menu"
  /\ chosen' = [option |-> "15", input |-> <<>>]
  /\ \E st \in {DemoTestsFrom([heap |-> heap, data |-> data, local |-> copy],
                               1)} :
       /\ heap' = st.heap
       /\ data' = st.data
       /\ copy' = st.local
  /\ UNCHANGED <<root, lost, tpc>>
  /\ Calculator

\* Menu option 0: run() returns, main returns and ~TreeApp() deletes the
\* tree
Exit ==
  /\ tpc = "menu"
  /\ chosen' = [option |-> "0", input |-> <<>>]
  /\ \E gone \in {deleteTree(heap, root)} :
       IF gone.undefined THEN Undefined
       ELSE /\ heap' = gone.heap
            /\ root' = Held(gone.heap, root)
            /\ tpc' = "exited"
            /\ UNCHANGED <<data, copy, lost>>
  /\ Calculator

-----------------------------------------------------------------------------
(* Specification                                                           *)

\* NumericalIntegrator(): bounds 0 and 1, 1000 subdivisions, no expression
Constructed ==
  /\ infix_ = <<>>
  /\ lowerBound_ = Zero
  /\ upperBound_ = One
  /\ subdivisions_ = 1000
  /\ ipc = "idle"
  /\ parts = 0
  /\ step = Zero
  /\ sum = Zero
  /\ idx = 0
  /\ report = <<>>
  /\ calls = <<>>
  /\ console = <<>>
  /\ request = [op |-> "construct", args |-> <<>>]

Init ==
  /\ expr \in Inputs
  /\ pc = "scan"
  /\ pos = 1
  /\ opStack = <<>>
  /\ result = <<>>
  /\ parenCount = 0
  /\ postfix_ = <<>>
  /\ x = Zero
  /\ iss = <<>>
  /\ valStack = <<>>
  /\ retval = Zero
  /\ parseErr = NoErr
  /\ err = NoEvalErr
  /\ last = [op |-> "init", c |-> <<>>, emits |-> <<>>, before |-> <<>>]
  /\ Constructed
  /\ TreeAppConstructed

Next ==
  \/ ParseSpace
  \/ ParseNumber
  \/ ParseVariable
  \/ ParseIdentifier
  \/ ParseOpen
  \/ ParseClose
  \/ ParseOperator
  \/ ParseOther
  \/ ParseEnd
  \/ EvalStart
  \/ EvalNumber
  \/ EvalVariable
  \/ EvalFunction
  \/ EvalOperator
  \/ EvalOther
  \/ EvalReturn

Spec == Init /\ [][Next]_vars

\* A constructed integrator, before any operation
CalculatorConstructed ==
  /\ expr = <<>>
  /\ pc = "parsed"
  /\ pos = 1
  /\ opStack = <<>>
  /\ result = <<>>
  /\ parenCount = 0
  /\ postfix_ = <<>>
  /\ x = Zero
  /\ iss = <<>>
  /\ valStack = <<>>
  /\ retval = Zero
  /\ parseErr = NoErr
  /\ err = NoEvalErr
  /\ last = [op |-> "init", c |-> <<>>, emits |-> <<>>, before |-> <<>>]
  /\ Constructed

\* The two programs, each before its first operation
IntegratorInit == CalculatorConstructed /\ TreeAppConstructed

IntegratorNext ==
  \/ SetExpression
  \/ ParseSpace
  \/ ParseNumber
  \/ ParseVariable
  \/ ParseIdentifier
  \/ ParseOpen
  \/ ParseClose
  \/ ParseOperator
  \/ ParseOther
  \/ ParseEnd
  \/ SetBounds
  \/ SetSubdivisions
  \/ MenuSetBounds
  \/ MenuSetSubdivisions
  \/ ComputeAll
  \/ Unfollowed("trapezoidal")
  \/ Unfollowed("simpson")
  \/ Unfollowed("midpoint")
  \/ TrapezoidalStart
  \/ TrapezoidalLoop
  \/ TrapezoidalReturn
  \/ SimpsonStart
  \/ SimpsonLoop
  \/ SimpsonReturn
  \/ MidpointStart
  \/ MidpointLoop
  \/ MidpointReturn

IntegratorSpec == IntegratorInit /\ [][IntegratorNext]_vars

\* The integrator of runTests: the operations, and computeAll as Test 1
\* calls it
RunTestsNext ==
  \/ SetExpression
  \/ ParseSpace
  \/ ParseNumber
  \/ ParseVariable
  \/ ParseIdentifier
  \/ ParseOpen
  \/ ParseClose
  \/ ParseOperator
  \/ ParseOther
  \/ ParseEnd
  \/ SetBounds
  \/ SetSubdivisions
  \/ TestComputeAll
  \/ TrapezoidalStart
  \/ TrapezoidalLoop
  \/ TrapezoidalReturn
  \/ SimpsonStart
  \/ SimpsonLoop
  \/ SimpsonReturn
  \/ MidpointStart
  \/ MidpointLoop
  \/ MidpointReturn

RunTestsSpec == IntegratorInit /\ [][RunTestsNext]_vars

\* The visualizer's menu: one action for an option taken
TreeAppNext ==
  \/ EnterTree
  \/ LoadExample
  \/ Inspect
  \/ SerializeRoot
  \/ Mirror
  \/ Other
  \/ DemoTests
  \/ Exit

TreeAppSpec == IntegratorInit /\ [][TreeAppNext]_vars

\* The values at the nodes of the trees given to serialize
TreeValues == {IntMin, -7, 0, IntMax}

\* The binary trees of k nodes: <<>>, or <<value, left, right>>
RECURSIVE TreesOf(_)
TreesOf(k) ==
  IF k = 0 THEN {<<>>}
  ELSE UNION {{<<v, l, r>> : v \in TreeValues, l \in TreesOf(j),
                             r \in TreesOf(k - 1 - j)} : j \in 0..(k - 1)}

Trees == UNION {TreesOf(k) : k \in 0..MaxNodes}

\* new TreeNode(x, left, right), the children made first: the heap with the
\* nodes of tree t, and the pointer to its root
RECURSIVE Build(_, _)
Build(h, t) ==
  IF t = <<>> THEN [heap |-> h, root |-> 0]
  ELSE LET l == Build(h, t[2])
           r == Build(l.heap, t[3])
           id == NewId(r.heap)
       IN [heap |-> [New(r.heap, t[1]) EXCEPT ![id].left = l.root,
                                              ![id].right = r.root],
           root |-> id]

\* A tree of at most MaxNodes nodes, about to be given to Codec::serialize
CodecInit ==
  /\ CalculatorConstructed
  /\ \E t \in Trees :
       \E built \in {Build(<<>>, t)} :
         /\ heap = built.heap
         /\ root = built.root
         /\ chosen = [option |-> "codec", input |-> t]
  /\ data = <<>>
  /\ copy = 0
  /\ lost = 0
  /\ tpc = "tree"

\* data = Codec::serialize(root)
CodecSerialize ==
  /\ tpc = "tree"
  /\ data' = Serialize(heap, root)
  /\ tpc' = "serialized"
  /\ UNCHANGED <<heap, root, copy, lost, chosen>>
  /\ Calculator

\* copy = Codec::deserialize(data)
CodecDeserialize ==
  /\ tpc = "serialized"
  /\ \E made \in {Deserialize(heap, data)} :
       IF made.threw
         THEN /\ tpc' = "threw"
              /\ lost' = lost + Cardinality(DOMAIN made.heap \ DOMAIN heap)
              /\ UNCHANGED <<heap, copy>>
         ELSE /\ tpc' = "deserialized"
              /\ heap' = made.heap
              /\ copy' = made.root
              /\ lost' = lost
  /\ UNCHANGED <<root, data, chosen>>
  /\ Calculator

CodecNext ==
  \/ CodecSerialize
  \/ CodecDeserialize

CodecSpec == CodecInit /\ [][CodecNext]_vars

-----------------------------------------------------------------------------
(* The grammar of expressions, as the specification states it (sections 3  *)
(* and 6), against which the parser is judged:                             *)
(*   expr   ::= term (('+' | '-') term)*                                   *)
(*   term   ::= factor (('*' | '/') factor)*                               *)
(*   factor ::= base ('^' factor)?                                         *)
(*   base   ::= number | x | constant | function '(' expr ')'              *)
(*            | '(' expr ')'                                               *)
(* GrammarLex cuts the text into lexemes, GrammarExpr translates them to   *)
(* the postfix order the grammar dictates.                                 *)

GrammarBad == <<<<"!">>>>

\* A number: digits with at most one decimal point that has a digit after it
GrammarNumberLen(s) ==
  LET ni == RunLen(s, 1, Range(Digits))
      nf == IF ni < Len(s) /\ s[ni + 1] = "."
              THEN RunLen(s, ni + 2, Range(Digits)) ELSE 0
  IN IF nf > 0 THEN ni + 1 + nf ELSE ni

GrammarWord(w) ==
  IF w = <<"x">> THEN <<w>>
  ELSE IF w \in {<<"p", "i">>, <<"e">>} \cup FunctionNames THEN <<w>>
  ELSE GrammarBad

RECURSIVE GrammarLex(_)
GrammarLex(s) ==
  IF s = <<>> THEN <<>>
  ELSE IF IsSpace(s[1]) THEN GrammarLex(Tail(s))
  ELSE LET n == IF IsAlpha(s[1]) THEN RunLen(s, 1, AlphaChars)
                ELSE IF s[1] \in {"+", "-", "*", "/", "^", "(", ")"} THEN 1
                ELSE GrammarNumberLen(s)
           w == [k \in 1..n |-> ToLower(s[k])]
           rest == GrammarLex(SubSeq(s, n + 1, Len(s)))
       IN IF n = 0 \/ rest = GrammarBad THEN GrammarBad
          ELSE IF IsAlpha(s[1])
            THEN IF GrammarWord(w) = GrammarBad THEN GrammarBad
                 ELSE <<w>> \o rest
          ELSE <<w>> \o rest

GrammarFail == [ok |-> FALSE, out |-> <<>>, rest |-> <<>>]
GrammarOk(out, rest) == [ok |-> TRUE, out |-> out, rest |-> rest]

\* The instruction a constant stands for
GrammarConstant(w) == IF w = <<"p", "i">> THEN ToStringPi ELSE ToStringE

RECURSIVE GrammarExpr(_), GrammarExprRest(_, _), GrammarTerm(_),
          GrammarTermRest(_, _), GrammarFactor(_), GrammarBase(_)

GrammarBase(ts) ==
  IF ts = <<>> THEN GrammarFail
  ELSE IF IsDigit(ts[1][1]) \/ ts[1][1] = "." \/ ts[1] = <<"x">>
    THEN GrammarOk(<<ts[1]>>, Tail(ts))
  ELSE IF ts[1] \in {<<"p", "i">>, <<"e">>}
    THEN GrammarOk(<<GrammarConstant(ts[1])>>, Tail(ts))
  ELSE IF ts[1] = <<"(">>
    THEN LET e == GrammarExpr(Tail(ts))
         IN IF e.ok /\ e.rest # <<>> /\ e.rest[1] = <<")">>
              THEN GrammarOk(e.out, Tail(e.rest))
              ELSE GrammarFail
  ELSE IF ts[1] \in FunctionNames /\ Len(ts) > 1 /\ ts[2] = <<"(">>
    THEN LET e == GrammarExpr(Tail(Tail(ts)))
         IN IF e.ok /\ e.rest # <<>> /\ e.rest[1] = <<")">>
              THEN GrammarOk(Append(e.out, ts[1]), Tail(e.rest))
              ELSE GrammarFail
  ELSE GrammarFail

\* '^' binds tightest and groups to the right
GrammarFactor(ts) ==
  LET b == GrammarBase(ts)
  IN IF ~b.ok THEN GrammarFail
     ELSE IF b.rest # <<>> /\ b.rest[1] = <<"^">>
       THEN LET f == GrammarFactor(Tail(b.rest))
            IN IF f.ok THEN GrammarOk(b.out \o f.out \o <<<<"^">>>>, f.rest)
               ELSE GrammarFail
     ELSE b

\* '*' and '/' group to the left
GrammarTermRest(out, ts) ==
  IF ts # <<>> /\ ts[1] \in {<<"*">>, <<"/">>}
    THEN LET f == GrammarFactor(Tail(ts))
         IN IF f.ok THEN GrammarTermRest(out \o f.out \o <<ts[1]>>, f.rest)
            ELSE GrammarFail
    ELSE GrammarOk(out, ts)

GrammarTerm(ts) ==
  LET f == GrammarFactor(ts)
  IN IF f.ok THEN GrammarTermRest(f.out, f.rest) ELSE GrammarFail

\* '+' and '-' bind loosest and group to the left
GrammarExprRest(out, ts) ==
  IF ts # <<>> /\ ts[1] \in {<<"+">>, <<"-">>}
    THEN LET t == GrammarTerm(Tail(ts))
         IN IF t.ok THEN GrammarExprRest(out \o t.out \o <<ts[1]>>, t.rest)
            ELSE GrammarFail
    ELSE GrammarOk(out, ts)

GrammarExpr(ts) ==
  LET t == GrammarTerm(ts)
  IN IF t.ok THEN GrammarExprRest(t.out, t.rest) ELSE GrammarFail

\* The whole text is one expression of the grammar
WellFormed(s) ==
  /\ GrammarLex(s) # GrammarBad
  /\ GrammarExpr(GrammarLex(s)).ok
  /\ GrammarExpr(GrammarLex(s)).rest = <<>>

\* The postfix order the grammar dictates for a well-formed text
GrammarPostfix(s) == GrammarExpr(GrammarLex(s)).out

-----------------------------------------------------------------------------
(* Claims                                                                  *)

\* C1: every program infixToPostfix returns is syntactically valid: an
\* empty or invalid expression is rejected by the parse and never becomes a
\* program, and a program evaluate has run to the end of its token loop has
\* left exactly one value on the stack.
C1_ProgramLeavesOneValue ==
  /\ (pc # "scan" /\ parseErr = NoErr) => WellFormed(expr)
  /\ (parseErr = NoErr /\ pc = "eval" /\ iss = <<>>) => Len(valStack) = 1

\* A character the tokenizer knows no class for
InvalidChar(c) ==
  ~(\/ IsDigit(c)
    \/ IsAlpha(c)
    \/ IsSpace(c)
    \/ c \in {"+", "-", "*", "/", "^", "(", ")", "."})

\* C2: once infixToPostfix has ended on an expression that holds a character
\* of no class, it has failed with an error and produced no program.
C2_InvalidCharacterRejected ==
  (pc # "scan" /\ \E i \in DOMAIN expr : InvalidChar(expr[i]))
    => (parseErr # NoErr /\ postfix_ = <<>>)

\* infixToPostfix has just returned or thrown
ParseEnded == pc \in {"parsed", "parseError"}

\* Parentheses of the first n characters
OpenCount(s, n) == Cardinality({i \in 1..n : s[i] = "("})
CloseCount(s, n) == Cardinality({i \in 1..n : s[i] = ")"})

\* Where the first prefix with more ')' than '(' ends, 0 if there is none
FirstExtraClose(s) ==
  LET over == {n \in 1..Len(s) : CloseCount(s, n) > OpenCount(s, n)}
  IN IF over = {} THEN 0 ELSE CHOOSE n \in over : \A m \in over : n <= m

ExtraClosing == <<"Unbalanced parentheses", "extra closing ')'">>
MissingClosing == <<"Unbalanced parentheses", "missing closing ')'">>

\* C3: once infixToPostfix has ended, it has failed with the extra-closing
\* error, stopped at the first ')' that exceeds the '(' before it, if some
\* prefix has such a ')'; otherwise with the missing-closing error if the
\* text has more '(' than ')'; and with neither when the two balance.
C3_ParenthesisErrors ==
  ParseEnded =>
    IF FirstExtraClose(expr) > 0
      THEN parseErr = ExtraClosing /\ pos = FirstExtraClose(expr)
    ELSE IF OpenCount(expr, Len(expr)) > CloseCount(expr, Len(expr))
      THEN parseErr = MissingClosing
    ELSE parseErr \notin {ExtraClosing, MissingClosing}

\* An extra ')' met after a balanced pair
C3_ExtraClosingReached ==
  /\ parseErr = ExtraClosing
  /\ pos > 2
  /\ OpenCount(expr, pos) > 0

\* A well-formed expression without function calls
OperatorExpression(s) ==
  /\ WellFormed(s)
  /\ \A i \in DOMAIN GrammarLex(s) : GrammarLex(s)[i] \notin FunctionNames

\* C4: for a well-formed expression over operands, operators and
\* parentheses, infixToPostfix succeeds and its instructions are in the
\* order of the grammar, '^' above '*' '/' above '+' '-', '^' grouping to
\* the right and the others to the left, operands in their infix order.
C4_GrammarOrder ==
  (ParseEnded /\ OperatorExpression(expr))
    => (parseErr = NoErr /\ Tokens(result) = GrammarPostfix(expr)
        /\ postfix_ = result)

\* Two '^' in a row have been parsed
C4_PowerChainParsed ==
  /\ pc = "parsed"
  /\ OperatorExpression(expr)
  /\ Cardinality({i \in DOMAIN expr : expr[i] = "^"}) = 2

\* Maximal runs of digits and points that hold a digit: the numbers
NumberRuns(s) ==
  {i \in DOMAIN s :
     /\ s[i] \in NumberChars
     /\ i = 1 \/ s[i - 1] \notin NumberChars
     /\ \E k \in 0..(RunLen(s, i, NumberChars) - 1) : IsDigit(s[i + k])}

\* Where a word starts: a letter with only x before it in its run of letters
WordStarts(s) ==
  {i \in DOMAIN s :
     /\ IsAlpha(s[i])
     /\ \A j \in 1..(i - 1) :
          (\A k \in j..i : IsAlpha(s[k])) => s[j] \in {"x", "X"}}

WordAt(s, i) ==
  IF s[i] \in {"x", "X"} THEN <<"x">>
  ELSE [k \in 1..RunLen(s, i, AlphaChars) |-> ToLower(s[i + k - 1])]

\* Every word is the variable or a constant
FunctionFree(s) ==
  \A i \in WordStarts(s) : WordAt(s, i) \in {<<"x">>, <<"p", "i">>, <<"e">>}

CountOperands(s) == Cardinality(NumberRuns(s)) + Cardinality(WordStarts(s))
CountOperators(s) ==
  Cardinality({i \in DOMAIN s : s[i] \in {"+", "-", "*", "/", "^"}})

Balanced(s) ==
  /\ FirstExtraClose(s) = 0
  /\ OpenCount(s, Len(s)) = CloseCount(s, Len(s))

\* C5: for an expression with balanced parentheses and no function names,
\* infixToPostfix succeeds and the postfix string has as many tokens as the
\* text has operands plus operators.
C5_TokenCount ==
  (ParseEnded /\ Balanced(expr) /\ FunctionFree(expr))
    => (parseErr = NoErr
        /\ Len(Tokens(result)) = CountOperands(expr) + CountOperators(expr)
        /\ postfix_ = result)

\* A parenthesised expression with two operators has been parsed
C5_GroupParsed ==
  /\ pc = "parsed"
  /\ FunctionFree(expr)
  /\ OpenCount(expr, Len(expr)) > 0
  /\ CountOperators(expr) = 2
  /\ Len(Tokens(postfix_)) = 5

\* C6: a function name is written to the output only by the step that
\* processes the ')' matching the '(' that follows the name, as the last
\* instruction written by that step; it is never written at the end of the
\* input or while unwinding to another '('.
C6_FunctionWrittenAtMatchingParen ==
  \A i \in DOMAIN last.emits :
    /\ last.emits[i][2] = "matched"
    /\ last.op = "close"
    /\ Last(Tokens(result)) = last.emits[i][1]

Half == Rat(1, 2, <<>>)

\* C7: every example of the help and the quick reference is accepted by
\* infixToPostfix, and evaluate at x = 0.5 raises no error on it.
C7_HelpExamplesEvaluate ==
  expr \in HelpExamples =>
    /\ parseErr = NoErr
    /\ x = Half => pc # "evalError"

NotEnoughOperands(op) ==
  <<"Invalid expression: not enough operands for operator", op>>

\* C8 as stated: after evaluate has met a binary operator with the values
\* s on the stack: with two or more values it has replaced the two top
\* values, a below b, by a op b, so that the stack is one shorter; with
\* fewer than two it has failed with the insufficient-operands error, the
\* stack and the token stream untouched.
C8_OperatorAlwaysPushes ==
  (last.op = "binary" /\ pc # "beyond") =>
    LET s == last.before
        n == Len(s)
        op == last.c
    IN IF n < 2
         THEN /\ pc = "evalError"
              /\ err = NotEnoughOperands(op)
              /\ valStack = s
              /\ iss # <<>> /\ iss[1] = op
         ELSE /\ pc = "eval"
              /\ Len(valStack) = n - 1
              /\ valStack = Append(SubSeq(s, 1, n - 2),
                                   ApplyBinaryOp(op[1], s[n - 1], s[n]))

DivisionByZero == <<"Division by zero", <<>>>>

\* What a value's sign and decimal bounds say of its magnitude
MagnitudeBelow1e15(v) == v.sg = 0 \/ (v.sg \in {-1, 1} /\ v.hi <= -15)
MagnitudeAtLeast1e15(v) == v.sg \in {-1, 1} /\ v.lo >= -15

\* C8, amended: as stated, except that '/' over a divisor b of magnitude
\* below 1e-15 pushes nothing and fails with Division by zero.  (A run in
\* which the model does not determine the divisor's magnitude is not
\* followed past the '/'.)
C8_BinaryOperator ==
  last.op = "binary" =>
    LET s == last.before
        n == Len(s)
        op == last.c
    IN IF n < 2
         THEN /\ pc = "evalError"
              /\ err = NotEnoughOperands(op)
              /\ valStack = s
              /\ iss # <<>> /\ iss[1] = op
       ELSE IF op = <<"/">> /\ MagnitudeBelow1e15(s[n])
         THEN /\ pc = "evalError"
              /\ err = DivisionByZero
       ELSE IF pc = "beyond"
         THEN op = <<"/">> /\ ~MagnitudeAtLeast1e15(s[n])
       ELSE /\ pc = "eval"
            /\ Len(valStack) = n - 1
            /\ valStack = Append(SubSeq(s, 1, n - 2),
                                 ApplyBinaryOp(op[1], s[n - 1], s[n]))

\* A subtraction of two different values has been executed
C8_SubtractionExecuted ==
  /\ last.op = "binary"
  /\ last.c = <<"-">>
  /\ Len(last.before) = 2
  /\ last.before[1] # last.before[2]
  /\ pc = "eval"

\* C9: after evaluate has met '/' with a over b on top of the stack: if the
\* magnitude of b is below 1e-15 it has failed with Division by zero and
\* pushed nothing; if it is 1e-15 or more it has pushed a/b.
C9_Division ==
  (last.op = "binary" /\ last.c = <<"/">> /\ Len(last.before) >= 2) =>
    LET s == last.before
        n == Len(s)
    IN /\ MagnitudeBelow1e15(s[n]) =>
            /\ pc = "evalError"
            /\ err = DivisionByZero
            /\ valStack = SubSeq(s, 1, n - 2)
       /\ MagnitudeAtLeast1e15(s[n]) =>
            /\ pc = "eval"
            /\ valStack = Append(SubSeq(s, 1, n - 2), Div(s[n - 1], s[n]))
            /\ Last(valStack).sg \in {s[n - 1].sg * s[n].sg, 3}

\* A divisor that is not zero but within the tolerance has been refused
C9_TinyDivisorRefused ==
  /\ pc = "evalError"
  /\ err = DivisionByZero
  /\ last.before # <<>>
  /\ Last(last.before) = Tiny

\* C10: after evaluate has met a function name with the values s on the
\* stack: on the empty stack it has failed with the missing-argument error;
\* otherwise, with a on top, log and ln have failed with a domain error
\* exactly when a <= 0, sqrt exactly when a < 0, and sin, cos, tan, abs and
\* exp have not failed.
C10_FunctionDomains ==
  last.op = "function" =>
    LET s == last.before
        f == last.c
    IN /\ f \in FunctionNames
       /\ IF s = <<>>
            THEN /\ pc = "evalError"
                 /\ err = <<"Invalid expression: requires an argument", f>>
            ELSE LET a == Last(s)
                 IN /\ pc = "evalError" => err = <<"Domain error", f>>
                    /\ a.sg \in {-1, 0, 1} =>
                         /\ pc \in {"eval", "evalError"}
                         /\ pc = "evalError" <=>
                              \/ f \in {<<"l","o","g">>, <<"l","n">>} /\ a.sg <= 0
                              \/ f = <<"s","q","r","t">> /\ a.sg = -1
                    /\ f \notin {<<"l","o","g">>, <<"l","n">>, <<"s","q","r","t">>}
                         => pc = "eval"
                    /\ pc = "eval" => Len(valStack) = Len(s)

\* sqrt has accepted zero
C10_SqrtOfZero ==
  /\ last.op = "function"
  /\ last.c = <<"s","q","r","t">>
  /\ last.before # <<>>
  /\ Last(last.before) = Zero
  /\ pc = "eval"

\* C11: evaluate fails with "no result computed" only on a program without
\* any token; on a program with a token it returns a value or fails with
\* another error.
C11_NoResultOnlyForEmptyProgram ==
  (pc = "evalError" /\ err[1] = "Invalid expression: no result computed")
    => Tokens(postfix_) = <<>>

\* How the call of evaluate that has just ended, ended
CallOutcome == IF pc = "returned" THEN Returned(retval) ELSE Failed(err)

\* The outcome of a call is that of the program and x alone, whatever calls
\* came before it
OutcomeIsFunction ==
  pc \in {"returned", "evalError"} => CallOutcome = Evaluate(postfix_, x)

\* No step of a call of evaluate, from its start to its return or throw,
\* changes the program, the bounds or the subdivision count
CallFrame ==
  (pc = "eval" \/ pc' = "eval") =>
    /\ postfix_' = postfix_
    /\ lowerBound_' = lowerBound_
    /\ upperBound_' = upperBound_
    /\ subdivisions_' = subdivisions_

\* C12: evaluate is a pure function of the stored program and x: a call
\* that returns or fails leaves the program, the bounds and the subdivision
\* count as they were, and its outcome depends on the program and x only,
\* not on the calls, failed or not, made before.
C12_EvaluateIsPure == []OutcomeIsFunction /\ [][CallFrame]_vars

\* A call of evaluate has ended with the division error at the tiny x
C12_FailedAgain ==
  /\ pc = "evalError"
  /\ err[1] = "Division by zero"
  /\ x = Tiny
  /\ last.op = "binary"

\* C13: whenever no setExpression is under way, infix_ and postfix_ belong
\* together: postfix_ is the program into which the parser translated the
\* text infix_, so a rejected expression has left its mark on neither.
C13_TextAndProgramBelongTogether ==
  Idle => /\ expr = infix_
          /\ parseErr = NoErr
          /\ postfix_ = result

\* The lines computeAll prints, in the order of its try blocks
RuleOrder == <<"trapezoidal", "simpson", "midpoint">>

\* The points the operation under way has passed to the evaluator for a rule
CallsOf(method) ==
  LET RECURSIVE Pick(_)
      Pick(cs) == IF cs = <<>> THEN <<>>
                  ELSE IF cs[1][1] = method THEN <<cs[1][2]>> \o Pick(Tail(cs))
                  ELSE Pick(Tail(cs))
  IN Pick(calls)

\* How many lines computeAll has printed when it is at a given place
LinesAt(place) ==
  IF place \in {"trapezoidal", "trapezoidalLoop"} THEN 0
  ELSE IF place \in {"simpson", "simpsonLoop"} THEN 1
  ELSE IF place \in {"midpoint", "midpointLoop"} THEN 2
  ELSE 3

\* A printed line is the rule's own: an error line carries the exception of
\* the last evaluator call the rule made and every earlier call of the rule
\* returned a value; a value line stands for a rule all of whose calls
\* returned a value
OwnLine(line) ==
  LET points == CallsOf(line.method)
      outcomes == [k \in DOMAIN points |-> Evaluate(postfix_, points[k])]
  IN /\ points # <<>>
     /\ \A k \in 1..(Len(points) - 1) : outcomes[k].kind = "value"
     /\ IF line.kind = "error"
          THEN /\ outcomes[Len(points)].kind = "error"
               /\ line.err = outcomes[Len(points)].err
          ELSE /\ line.kind = "value"
               /\ outcomes[Len(points)].kind = "value"

\* C14: computeAll attempts the three rules in every case, in the order
\* trapezoidal, Simpson, midpoint: an evaluation error ends only the rule in
\* which it occurs, and every rule gets one line with its own value or its
\* own error (whose content is judged where the model follows the rule's
\* calls).
C14_EveryRuleReports ==
  (request.op = "computeAll" /\ ipc # "beyond") =>
    /\ Len(report) = LinesAt(ipc)
    /\ \A k \in DOMAIN report :
         /\ report[k].method = RuleOrder[k]
         /\ report[k].kind # "unfollowed" => OwnLine(report[k])
    /\ \A k \in DOMAIN calls :
         \E m \in 1..Min(Len(report) + 1, 3) : calls[k][1] = RuleOrder[m]

\* computeAll has ended with errors of the first two rules and a value of
\* the third
C14_ErrorsThenValue ==
  /\ request.op = "computeAll"
  /\ ipc = "idle"
  /\ [k \in DOMAIN report |-> report[k].kind] = <<"error", "error", "value">>

\* The partition count a rule works with
PartsOf(method) ==
  IF method = "simpson" /\ subdivisions_ % 2 # 0 THEN subdivisions_ + 1
  ELSE subdivisions_

\* lower + t * (upper - lower) / count, for t = p / q
PointAt(p, q, count) ==
  AddSub(lowerBound_,
         Mul(Rat(p, q, <<>>),
             Div(AddSub(upperBound_, lowerBound_, -1, "-"), IntOf(count))),
         1, "+")

\* The sample points of a rule by index: the count + 1 grid points from the
\* lower bound (index 0) to the upper bound (index count), or for the
\* midpoint rule the middles of the count strips
SamplesOf(method) ==
  LET count == PartsOf(method)
  IN IF method = "midpoint"
       THEN [k \in 1..count |-> PointAt(2 * k - 1, 2, count)]
       ELSE [k \in 1..(count + 1) |-> PointAt(k - 1, 1, count)]

\* The indices of the samples at which the integrand fails
FailingSamples(method) ==
  {k \in DOMAIN SamplesOf(method) :
     Evaluate(postfix_, SamplesOf(method)[k]).kind = "error"}

Lowest(S) == CHOOSE k \in S : \A j \in S : k <= j

\* C15: the error a rule surfaces is that of the failing sample of lowest
\* index, and the rule calls the evaluator no more after a failed call.
C15_LowestFailingSampleSurfaces ==
  (request.op = "computeAll" /\ ipc # "beyond" /\ Followed) =>
    \A k \in DOMAIN report :
      report[k].kind = "error" =>
        LET method == report[k].method
            fails == FailingSamples(method)
            made == CallsOf(method)
        IN /\ fails # {}
           /\ report[k].err =
                Evaluate(postfix_, SamplesOf(method)[Lowest(fails)]).err
           /\ \A j \in 1..(Len(made) - 1) :
                Evaluate(postfix_, made[j]).kind = "value"

\* a <= b on two numbers
NotAbove(a, b) == a.n * b.d <= b.n * a.d

\* C16: lowerBound_ <= upperBound_ in every state; setBounds(a, b) with
\* a > b stores (b, a) and reports the swap, with a <= b it stores (a, b) and
\* reports nothing.
C16_BoundsOrdered ==
  /\ NotAbove(lowerBound_, upperBound_)
  /\ request.op = "setBounds" =>
       LET a == request.args[1]
           b == request.args[2]
       IN IF NotAbove(a, b)
            THEN /\ lowerBound_ = a
                 /\ upperBound_ = b
                 /\ console = <<>>
            ELSE /\ lowerBound_ = b
                 /\ upperBound_ = a
                 /\ console = <<"Note: Bounds were swapped (lower > upper)">>

\* setBounds has been called with a lower bound above the upper bound
C16_SwappedBounds ==
  /\ request.op = "setBounds"
  /\ ~NotAbove(request.args[1], request.args[2])
  /\ lowerBound_ = request.args[2]
  /\ console # <<>>

\* C17: subdivisions_ >= 1 in every state; setSubdivisions(n) with n < 1
\* stores 1 and prints a warning, with n >= 1 it stores n.
C17_SubdivisionsPositive ==
  /\ subdivisions_ >= 1
  /\ request.op = "setSubdivisions" =>
       IF request.args[1] < 1
         THEN /\ subdivisions_ = 1
              /\ console =
                   <<"Warning: Subdivisions must be at least 1. Using 1.">>
         ELSE /\ subdivisions_ = request.args[1]
              /\ console = <<>>

\* setSubdivisions has been called with a count below 1
C17_CountBelowOne ==
  /\ request.op = "setSubdivisions"
  /\ request.args[1] < 1
  /\ subdivisions_ = 1

\* How often a point occurs in a sequence of points
Occurrences(points, p) == Cardinality({k \in DOMAIN points : points[k] = p})

\* The evaluator calls of a rule follow its sampling scheme: no sample
\* point is passed more often than it occurs among the rule's samples, and
\* no other point is passed at all
WithinScheme(method) ==
  LET made == CallsOf(method)
      samples == SamplesOf(method)
  IN \A k \in DOMAIN made :
       Occurrences(made, made[k]) <= Occurrences(samples, made[k])

\* The rule has called the evaluator once for every sample
SchemeComplete(method) ==
  LET made == CallsOf(method)
      samples == SamplesOf(method)
  IN /\ Len(made) = Len(samples)
     /\ \A k \in DOMAIN samples :
          Occurrences(made, samples[k]) = Occurrences(samples, samples[k])

\* The value of the integrand at a point where it has one
ValueAt(p) == Evaluate(postfix_, p).val

\* Two results are the same number, as far as they are determined
Agree(a, b) ==
  IF IsNum(a) /\ IsNum(b) THEN a = b
  ELSE /\ ~IsNum(a)
       /\ ~IsNum(b)
       /\ IsNaN(a) = IsNaN(b)
       /\ (Determined(a) /\ Determined(b)) => a.sg = b.sg

Plus(a, b) == AddSub(a, b, 1, "+")

\* The sum of w[k] * f(samples[k]) over the first count samples
RECURSIVE WeightedSum(_, _, _)
WeightedSum(samples, w, count) ==
  IF count = 0 THEN Zero
  ELSE Plus(WeightedSum(samples, w, count - 1),
            Mul(w[count], ValueAt(samples[count])))

StripWidth(count) ==
  Div(AddSub(upperBound_, lowerBound_, -1, "-"), IntOf(count))

\* The line computeAll has printed for a rule, if any
LinesOf(method) == {k \in DOMAIN report : report[k].method = method}

\* What a rule must have done when computeAll has printed its line: if the
\* line is a value, every sample was evaluated and the value is formula
RuleAsStated(method, formula) ==
  /\ WithinScheme(method)
  /\ \A k \in LinesOf(method) :
       report[k].kind = "value" =>
         /\ SchemeComplete(method)
         /\ Agree(report[k].val, formula)

\* Simpson's weights by index 0..count: 1 at the ends, 4 at odd indices, 2 at
\* even interior indices
SimpsonFormula ==
  LET count == PartsOf("simpson")
      samples == SamplesOf("simpson")
      w == [k \in DOMAIN samples |->
              IF k = 1 \/ k = count + 1 THEN One
              ELSE IF (k - 1) % 2 = 1 THEN IntOf(4) ELSE IntOf(2)]
  IN Mul(Div(StripWidth(count), IntOf(3)),
         WeightedSum(samples, w, count + 1))

\* A returned simpsonsRule has called the evaluator n' + 1 times: n + 1
\* times for an even stored count n, n + 2 times for an odd one
SimpsonCallCount ==
  \A k \in LinesOf("simpson") :
    report[k].kind = "value" =>
      Len(CallsOf("simpson")) - (IF subdivisions_ % 2 = 0 THEN 1 ELSE 2)
        = subdivisions_

SimpsonAsStated ==
  request.op = "computeAll" =>
    /\ SimpsonCallCount
    /\ Followed =>
         /\ Len(SamplesOf("simpson")) = PartsOf("simpson") + 1
         /\ RuleAsStated("simpson", SimpsonFormula)

\* No step of computeAll changes the stored subdivision count
CountKept ==
  (ipc # "idle" \/ ipc' # "idle") => subdivisions_' = subdivisions_

\* C18: simpsonsRule works with n' = n for an even and n + 1 for an odd
\* stored count n, evaluates the integrand once at each of the n' + 1 points
\* lower + i * h, h = (upper - lower) / n', returns h / 3 times the sum of the
\* values weighted 1 at the ends, 4 at odd and 2 at even interior indices,
\* and leaves the stored count as it was.
C18_SimpsonsRule == []SimpsonAsStated /\ [][CountKept]_vars

TrapezoidalFormula ==
  LET count == subdivisions_
      samples == SamplesOf("trapezoidal")
      w == [k \in DOMAIN samples |->
              IF k = 1 \/ k = count + 1 THEN Half ELSE One]
  IN Mul(StripWidth(count), WeightedSum(samples, w, count + 1))

\* C19: trapezoidalRule evaluates the integrand once at each of the n + 1
\* points lower + i * h, h = (upper - lower) / n, and returns h times the sum
\* of half the values at the two bounds and the values at the n - 1 interior
\* points, none for n = 1.
C19_TrapezoidalRule ==
  (request.op = "computeAll" /\ Followed) =>
    /\ Len(SamplesOf("trapezoidal")) = subdivisions_ + 1
    /\ SamplesOf("trapezoidal")[1] = lowerBound_
    /\ SamplesOf("trapezoidal")[subdivisions_ + 1] = upperBound_
    /\ RuleAsStated("trapezoidal", TrapezoidalFormula)

\* trapezoidalRule has returned a value computed from interior points too
C19_InteriorPointsSummed ==
  /\ ipc = "simpson"
  /\ subdivisions_ = 3
  /\ report[1].kind = "value"
  /\ IsNum(report[1].val)
  /\ ~IsZero(report[1].val)
  /\ Len(CallsOf("trapezoidal")) = 4

MidpointFormula ==
  LET count == subdivisions_
      samples == SamplesOf("midpoint")
      w == [k \in DOMAIN samples |-> One]
  IN Mul(StripWidth(count), WeightedSum(samples, w, count))

AtABound(method) ==
  \E k \in DOMAIN CallsOf(method) :
    CallsOf(method)[k] \in {lowerBound_, upperBound_}

MidpointAsStated ==
  /\ Len(SamplesOf("midpoint")) = subdivisions_
  /\ RuleAsStated("midpoint", MidpointFormula)

\* C20 as stated: midpointRule evaluates the integrand once at each of the n
\* midpoints lower + (i + 0.5) * h, never at a bound, and returns h times the
\* sum of the n values.
C20_MidpointNeverAtBound ==
  (request.op = "computeAll" /\ Followed) =>
    /\ MidpointAsStated
    /\ ~AtABound("midpoint")

\* C20, amended: midpointRule evaluates the integrand once at each of the n
\* midpoints lower + (i + 0.5) * h and returns h times the sum of the n
\* values; it evaluates at no bound when lower < upper, and at the bound
\* only when lower = upper, where every midpoint is the bound itself.
C20_MidpointRule ==
  (request.op = "computeAll" /\ Followed) =>
    /\ MidpointAsStated
    /\ lowerBound_ # upperBound_ => ~AtABound("midpoint")
    /\ (lowerBound_ = upperBound_ /\ CallsOf("midpoint") # <<>>)
         => AtABound("midpoint")

\* midpointRule has returned a value on an interval of positive length
C20_MidpointsSummed ==
  /\ request.op = "computeAll"
  /\ ipc = "idle"
  /\ subdivisions_ = 3
  /\ lowerBound_ # upperBound_
  /\ report[3].kind = "value"
  /\ IsNum(report[3].val)
  /\ ~IsZero(report[3].val)
  /\ Len(CallsOf("midpoint")) = 3

\* Test 1 of runTests is set up: x^2 parsed, bounds 0 and 1, 1000 strips
TestOneSet ==
  /\ infix_ = TestIntegrand
  /\ postfix_ = <<"x"," ","2"," ","^"," ">>
  /\ lowerBound_ = Zero
  /\ upperBound_ = One
  /\ subdivisions_ = TestSubdivisions

\* |v - 1/3| <= 99/1000000 for an exact v = n/d, that is
\* |3n - d| <= 297d/1000000: within 1e-4 of 1/3 with 1e-6 to spare, which is
\* more than 3000 roundings of doubles of magnitude below 1000 amount to
NearOneThird(v) ==
  /\ IsExact(v)
  /\ Fits(3, v.n)
  /\ Fits(297, v.d)
  /\ Abs(3 * v.n - v.d) <= (297 * v.d) \div 1000000

\* C21: with x^2, the bounds 0 and 1 and 1000 subdivisions set, each of the
\* three rules returns a value within 1e-4 of 1/3: every line of computeAll
\* is a value that near, and all three rules have reported when it is done.
C21_TestOneNearOneThird ==
  (TestOneSet /\ request.op = "computeAll") =>
    /\ \A k \in DOMAIN report :
         /\ report[k].method = RuleOrder[k]
         /\ report[k].kind = "value"
         /\ NearOneThird(report[k].val)
    /\ ipc = "idle" => Len(report) = 3

\* Test 1 has run: the three rules have returned what the sums over 1001,
\* 1001 and 1000 samples of x^2 come to, 666667/2000000, 1/3 and
\* 1333333/4000000.
C21_TestOneComputed ==
  /\ TestOneSet
  /\ request.op = "computeAll"
  /\ ipc = "idle"
  /\ Len(report) = 3
  /\ report[1].val.n = 666667
  /\ report[1].val.d = 2000000
  /\ report[2].val.n = 1
  /\ report[2].val.d = 3
  /\ report[3].val.n = 1333333
  /\ report[3].val.d = 4000000

\* The library constants lie strictly between these decimals of 8 places:
\* M_PI is 3.14159265358979..., M_E is 2.71828182845904...
LibraryConstant ==
  [pi |-> [below |-> Rat(314159265, 100000000, <<>>),
           above |-> Rat(314159266, 100000000, <<>>)],
   e  |-> [below |-> Rat(271828182, 100000000, <<>>),
           above |-> Rat(271828183, 100000000, <<>>)]]

\* a < b for two exact values
Below(a, b) == AddSub(a, b, -1, "-").sg = -1

\* v is a value that the constant can be
CanBe(v, constant) ==
  /\ IsExact(v)
  /\ Below(constant.below, v)
  /\ Below(v, constant.above)

\* C22: evaluating "pi" returns M_PI and evaluating "e" returns M_E; the
\* program holds the constant with no digits lost.
C22_ConstantsKeepTheirDigits ==
  /\ (pc = "returned" /\ expr = <<"p","i">>) =>
       CanBe(retval, LibraryConstant.pi)
  /\ (pc = "returned" /\ expr = <<"e">>) =>
       CanBe(retval, LibraryConstant.e)

\* The number of decimal points of a token
Points(token) == Cardinality({k \in DOMAIN token : token[k] = "."})

\* The decimal value of a literal of digits and one point at most
DecimalValue(token) ==
  LET digits == SelectSeq(token, IsDigit)
      point == IF Points(token) = 0 THEN Len(token) + 1
               ELSE CHOOSE k \in DOMAIN token : token[k] = "."
  IN Rat(DigitsToInt(digits), Pow10(Len(token) + 1 - point - Points(token)),
         <<>>)

\* The token that the number branch has just written
NumberWritten == Last(Tokens(result))

\* C23: a number token written by infixToPostfix is a maximal run of digits
\* with one decimal point at most, it is one token of the postfix, and
\* evaluate reads it as the decimal value of the literal; text with two
\* decimal points, as 1.2.3, is not written as one number.
C23_NumberTokens ==
  (pc = "scan" /\ last.op = "number") =>
    /\ NumberWritten = SubSeq(expr, pos - Len(NumberWritten), pos - 1)
    /\ \E k \in DOMAIN NumberWritten : IsDigit(NumberWritten[k])
    /\ pos - Len(NumberWritten) = 1
         \/ ~IsDigit(expr[pos - Len(NumberWritten) - 1])
    /\ pos > Len(expr) \/ ~IsDigit(expr[pos])
    /\ Points(NumberWritten) <= 1
    /\ IsNumberToken(NumberWritten)
    /\ Stod(NumberWritten) = DecimalValue(NumberWritten)

\* C24: every '.' that the number branch has taken into a token is followed
\* in the text by a digit, whether it starts the number, lies inside the run
\* of digits or ends it.
C24_PointTakenOnlyBeforeDigit ==
  (pc = "scan" /\ last.op = "number") =>
    \A j \in (pos - Len(NumberWritten))..(pos - 1) :
      expr[j] = "." => (j + 1 <= Len(expr) /\ IsDigit(expr[j + 1]))

\* The '(' on the operator stack
OpenOnStack == Cardinality({k \in DOMAIN opStack : opStack[k] = "("})

MissingOpening == <<"Unbalanced parentheses", "missing opening '('">>
UnbalancedAtEnd == <<"Unbalanced parentheses", "in expression">>

\* C26: whenever the character loop of infixToPostfix is about to take a
\* character or to end, parenCount is the number of '(' on the operator
\* stack; the call never throws "missing opening '('" nor "Unbalanced
\* parentheses in expression".
C26_ParenCountIsStackDepth ==
  /\ pc = "scan" => parenCount = OpenOnStack
  /\ parseErr \notin {MissingOpening, UnbalancedAtEnd}

\* A ')' has closed the inner of two open '(' with an operator between the
\* two: one '(' is left on the stack and counted.
C26_InnerParenthesisClosed ==
  /\ pc = "scan"
  /\ last.op = "close"
  /\ parenCount = 1
  /\ OpenOnStack = 1
  /\ Len(opStack) > 1

\* The tokens for which a branch of the chain in evaluate is taken
ActedOn(token) ==
  \/ IsNumberToken(token)
  \/ token = <<"x">>
  \/ token \in FunctionNames
  \/ IsOperatorToken(token)

\* C27: every token of a postfix that infixToPostfix returns is a number,
\* x, an operator or a registered function name, so that evaluate skips
\* none.
C27_AcceptedTokensAreActedOn ==
  pc = "parsed" => \A k \in DOMAIN Tokens(postfix_) : ActedOn(Tokens(postfix_)[k])

\* C28: when simpsonsRule has made its even correction and samples the
\* interior, its partition count is positive, even, the stored count or
\* the stored count plus one, and the loop index stays within 1 and that
\* count; this for every stored count up to the largest int.
C28_EvenCorrectionInRange ==
  ipc = "simpsonLoop" =>
    /\ parts > 0
    /\ parts % 2 = 0
    /\ parts \in {subdivisions_, subdivisions_ + 1}
    /\ idx \in 1..parts

\* The confirmation of a menu option: what it has printed after the note
\* or the warning of the setter, if there is one
Confirmation ==
  IF console[1] \in {"Note: Bounds were swapped (lower > upper)",
                     "Warning: Subdivisions must be at least 1. Using 1."}
    THEN Tail(console)
    ELSE console

\* C30: when menu option 2 or 3 has read its numbers, the confirmation it
\* has printed shows the bounds, or the count, that the integrator now
\* holds.
C30_ConfirmationShowsStored ==
  /\ (request.op = "menu 2" /\ request.args # <<>>) =>
       Confirmation = BoundsSetTo(lowerBound_, upperBound_)
  /\ (request.op = "menu 3" /\ request.args # <<>>) =>
       Confirmation = SubdivisionsSetTo(subdivisions_)

\* Every node of the tree at pointer p is alive
RECURSIVE AllAlive(_, _)
AllAlive(h, p) ==
  \/ p = 0
  \/ /\ p \in DOMAIN h
     /\ AllAlive(h, h[p].left)
     /\ AllAlive(h, h[p].right)

\* C25: whatever menu options of TreeApp have been taken, root is null or
\* points to a tree whose nodes are all alive, and no option, nor the
\* destructor at exit, reads or deletes a node that has been deleted.
C25_RootNeverDangles ==
  /\ tpc = "menu" => AllAlive(heap, root)
  /\ tpc # "undefined"

\* The tree at pointer p: <<>>, or <<value, left, right>>
RECURSIVE TreeOf(_, _)
TreeOf(h, p) ==
  IF p = 0 THEN <<>>
  ELSE <<h[p].val, TreeOf(h, h[p].left), TreeOf(h, h[p].right)>>

\* C29: deserialize(serialize(t)) does not throw and returns a tree of the
\* shape of t with the values of t at its nodes, nullptr for the empty
\* tree; t itself is as it was after serialize and after deserialize.
C29_RoundTrip ==
  /\ tpc # "threw"
  /\ tpc \in {"serialized", "deserialized"} =>
       TreeOf(heap, root) = chosen.input
  /\ tpc = "deserialized" =>
       /\ TreeOf(heap, copy) = chosen.input
       /\ chosen.input = <<>> <=> copy = 0
       /\ copy = 0 \/ copy # root

\* A tree of three nodes whose root has the least int and a right child
\* only has been serialized and deserialized
C29_RightSkewedTreeRestored ==
  /\ tpc = "deserialized"
  /\ copy # 0
  /\ Cardinality(DOMAIN heap) = 6
  /\ chosen.input[1] = IntMin
  /\ chosen.input[2] = <<>>
  /\ chosen.input[3] # <<>>

=============================================================================
